---- MODULE Spec2Model ----
(***************************************************************************)
(* bbb-presentation-video: the event parser, the frame scheduler           *)
(* (Renderer.render), the event dispatch to the four layers and the        *)
(* encoder boundary (Encoder.put / Encoder.join / Encoder.run).            *)
(*                                                                         *)
(* Two threads are modelled: the scheduler (main thread, program counter   *)
(* pc) and the encoder worker (threading.Thread(target=self.run), program  *)
(* counter workerPc).  They share the two queue.Queue objects and the      *)
(* three frame buffers.                                                    *)
(***************************************************************************)
EXTENDS Integers, Sequences, FiniteSets, TLC

(***************************************************************************)
(* Bounds of the model.                                                    *)
(***************************************************************************)
MaxEvents == 3          \* <event> elements in a generated events.xml
MaxSeconds == 2         \* span of the raw timestamps, in seconds
MaxClockEvents == 3     \* <event> elements of a document of the clock scenarios
MaxPodEvents == 2       \* per-pod elements after the opening of a pod scenario
MaxTldrawEvents == 3    \* elements after the opening of a tldraw scenario
MaxShapeEvents == 3     \* elements after the opening of a legacy whiteboard scenario
MaxBoardEvents == 2     \* elements after the opening of a mixed whiteboard scenario
MaxPresEvents == 4      \* elements of a presentation scenario
MaxCursorEvents == 3    \* elements after the opening of a cursor scenario
MaxParseEvents == 3     \* elements after the opening of a parsing scenario
MaxUpdates == 2         \* update_from_data calls on one shape object
MaxAssetEvents == 3     \* elements of a scenario with an unreadable presentation
MaxStaleEvents == 3     \* elements after the opening of a redrawing scenario

(***************************************************************************)
(* fractions.Fraction: exact rationals, kept normalised (gcd 1, d > 0).    *)
(***************************************************************************)
Abs(x) == IF x < 0 THEN -x ELSE x

RECURSIVE GCD(_, _)
GCD(a, b) == IF b = 0 THEN Abs(a) ELSE GCD(b, a % b)

Fraction(n, d) ==
    LET g == GCD(Abs(n), Abs(d))
        s == IF d < 0 THEN -1 ELSE 1
    IN  [n |-> (s * n) \div g, d |-> (s * d) \div g]

\* Variant: the sum is kept as a decimal number with three places.
FracAdd_decimal(a, b) ==
    Fraction(((a.n * b.d + b.n * a.d) * 1000) \div (a.d * b.d), 1000)

FracAdd(a, b) == Fraction(a.n * b.d + b.n * a.d, a.d * b.d)
FracSub(a, b) == Fraction(a.n * b.d - b.n * a.d, a.d * b.d)
FracMulInt(k, a) == Fraction(k * a.n, a.d)
FracInv(a) == Fraction(a.d, a.n)
FracLt(a, b) == a.n * b.d < b.n * a.d
FracLe(a, b) == a.n * b.d <= b.n * a.d
FracZero == Fraction(0, 1)

\* Optional[Fraction]: None is the record with denominator 0.
NoneFrac == [n |-> 0, d |-> 0]

\* ceil(a / b) for rationals a and b > 0
CeilDiv(a, b) ==
    LET num == a.n * b.d
        den == a.d * b.n
    IN  IF num % den = 0 THEN num \div den ELSE (num \div den) + 1

(***************************************************************************)
(* events.xml.  An <event> element carries the raw millisecond timestamp,  *)
(* the module, the event name and the sub-elements the parsers read; the   *)
(* empty string and -1 stand for a sub-element that is absent.             *)
(***************************************************************************)
DEFAULT_PRESENTATION_POD == "DEFAULT_PRESENTATION_POD"
Absent == ""
NoNumber == -1
None == "None"          \* Optional[str] None
NoneSlide == -1         \* Optional[int] None

\* The JSON document of a <shapeData> sub-element, as far as the shape
\* classes read it: type, childIndex and style.isFilled ("true", "false" or
\* absent).  NoData stands for a missing <shapeData>.
ShapeData(type, childIndex, isFilled) ==
    [type |-> type, childIndex |-> childIndex, isFilled |-> isFilled]
NoData == ShapeData(Absent, NoNumber, Absent)

\* Sub-elements: podId, text (the one string the event is about), number
\* (the one number), and for whiteboard events id/shapeId, presentation,
\* pageNumber, userId, type, status, dataPoints (<<>> when absent),
\* fullClear and shapeData.
Element(ts, module, eventname, podId, text, number) ==
    [timestamp |-> ts, module |-> module, eventname |-> eventname,
     podId |-> podId, text |-> text, number |-> number,
     shapeId |-> Absent, presentation |-> Absent, pageNumber |-> NoNumber,
     userId |-> Absent, type |-> Absent, status |-> Absent,
     dataPoints |-> <<>>, fullClear |-> Absent, shapeData |-> NoData]

\* A parsed event (the TypedDicts of events/__init__.py, one record shape).
\* slide: int, cursor: position code (0 is None), pan/zoom: value codes.
\* element identifies the dict object: the position of the <event> it was
\* built from, 0 for the record event that parse_events makes up.
\* Whiteboard events: id / shape_id, shape_type, shape_status, points,
\* full_clear ("true", "false", Absent when the key is not set) and data.
Event(name, timestamp) ==
    [name |-> name, timestamp |-> timestamp, element |-> 0, pod_id |-> Absent,
     status |-> FALSE, presentation |-> Absent, slide |-> 0,
     user_id |-> Absent, cursor |-> 0, pan |-> 0, zoom |-> 1,
     shape_id |-> None, shape_type |-> Absent, shape_status |-> Absent,
     points |-> <<>>, full_clear |-> Absent, data |-> NoData]

Parsed(e) == [kind |-> "event", event |-> e]
Continue == [kind |-> "continue", event |-> Event("", FracZero)]
ParsingError == [kind |-> "error", event |-> Event("", FracZero)]
\* an exception that is not an EventParsingError (KeyError)
Raised == [kind |-> "raise", event |-> Event("", FracZero)]

OptPod(el) == IF el.podId # Absent THEN el.podId ELSE DEFAULT_PRESENTATION_POD

parse_record(event, el) ==
    IF el.text = Absent THEN ParsingError
    ELSE Parsed([event EXCEPT !.status = (el.text = "true"), !.name = "record"])

parse_presenter(event, el) ==
    IF el.text = Absent THEN ParsingError
    ELSE Parsed([event EXCEPT !.user_id = el.text,
                              !.pod_id = DEFAULT_PRESENTATION_POD,
                              !.name = "presenter"])

parse_pod_presenter(event, el) ==
    IF el.text = Absent \/ el.podId = Absent THEN ParsingError
    ELSE Parsed([event EXCEPT !.user_id = el.text, !.pod_id = el.podId,
                              !.name = "presenter"])

parse_join(event, el) ==
    IF el.text = Absent THEN ParsingError
    ELSE Parsed([event EXCEPT !.user_id = el.text, !.name = "join"])

parse_left(event, el) ==
    IF el.text = Absent THEN ParsingError
    ELSE Parsed([event EXCEPT !.user_id = el.text, !.name = "left"])

parse_slide(event, el) ==
    IF el.number = NoNumber THEN ParsingError
    ELSE Parsed([event EXCEPT !.slide = el.number, !.pod_id = OptPod(el),
                              !.name = "slide"])

parse_presentation(event, el) ==
    IF el.text = Absent THEN ParsingError
    ELSE Parsed([event EXCEPT !.presentation = el.text, !.pod_id = OptPod(el),
                              !.name = "presentation"])

\* number carries the zoom code (widthRatio/heightRatio); a ratio <= 0 is
\* replaced by Size(1.0, 1.0).  The pan code is the same number.
parse_pan_zoom(event, el) ==
    IF el.number = NoNumber THEN ParsingError
    ELSE Parsed([event EXCEPT !.pan = el.number,
                              !.zoom = IF el.number <= 0 THEN 1 ELSE el.number,
                              !.pod_id = OptPod(el),
                              !.name = "pan_zoom"])

\* number carries the cursor position code; 0 is a position outside the
\* accepted range (cursor None).
xml_subelement_opt(text) == IF text = Absent THEN None ELSE text

\* presentation is set to None when the element has none; the key slide
\* is set only when the element has a pageNumber (NoneSlide is what
\* event.get("slide") then gives).
parse_whiteboard_cursor(event, el) ==
    IF el.text = Absent \/ el.number = NoNumber THEN ParsingError
    ELSE Parsed([event EXCEPT !.presentation = xml_subelement_opt(el.presentation),
                              !.slide = IF el.pageNumber = NoNumber THEN NoneSlide
                                        ELSE el.pageNumber,
                              !.user_id = el.text, !.cursor = el.number,
                              !.name = "cursor_v2"])

\* parse_cursor: number carries the position code of xOffset/yOffset; 0 is
\* a position outside [0, 1] (cursor None).
parse_cursor(event, el) ==
    IF el.number = NoNumber THEN ParsingError
    ELSE Parsed([event EXCEPT !.cursor = el.number, !.name = "cursor"])

\* shape_slide_off_by_one is false for every recorder version >= 0.9.0
xml_subelement_shape_slide(el) ==
    IF el.pageNumber = NoNumber THEN NoneSlide ELSE el.pageNumber

LegacyShapeTypes ==
    {"pencil", "rectangle", "ellipse", "triangle", "line", "poll_result", "text"}

ShapeStatusNames ==
    {"DRAW_START", "DRAW_UPDATE", "DRAW_END", "textCreated", "textEdited",
     "textPublished"}

\* parse_shape: id, presentation, pageNumber, status and userId are
\* optional; the keys presentation, slide, shape_id and user_id are set
\* even then, to None, but shape_status is set only when the element has a
\* status.  ShapeStatus[status] raises KeyError for an unknown name, and so
\* does str(event["shape_status"]) when ShapeNoDataPointsError is built for
\* an element without status.
parse_shape(event, el) ==
    IF el.type = Absent THEN ParsingError
    ELSE IF el.status # Absent /\ el.status \notin ShapeStatusNames THEN Raised
    ELSE IF el.dataPoints = <<>>
    THEN IF el.status = Absent THEN Raised ELSE ParsingError
    ELSE IF el.type \notin LegacyShapeTypes THEN ParsingError
    ELSE Parsed([event EXCEPT !.shape_id = xml_subelement_opt(el.shapeId),
                              !.presentation = xml_subelement_opt(el.presentation),
                              !.shape_type = el.type,
                              !.slide = xml_subelement_shape_slide(el),
                              !.shape_status = el.status,
                              !.user_id = xml_subelement_opt(el.userId),
                              !.points = el.dataPoints,
                              !.name = "shape"])

parse_undo(event, el) ==
    Parsed([event EXCEPT !.presentation = xml_subelement_opt(el.presentation),
                         !.slide = xml_subelement_shape_slide(el),
                         !.user_id = xml_subelement_opt(el.userId),
                         !.shape_id = xml_subelement_opt(el.shapeId),
                         !.name = "undo"])

parse_clear(event, el) ==
    Parsed([event EXCEPT !.presentation = xml_subelement_opt(el.presentation),
                         !.slide = xml_subelement_shape_slide(el),
                         !.user_id = xml_subelement_opt(el.userId),
                         !.full_clear = el.fullClear,
                         !.name = "clear"])

parse_add_shape(event, el) ==
    IF el.shapeId = Absent \/ el.presentation = Absent
       \/ el.pageNumber = NoNumber \/ el.userId = Absent \/ el.shapeData = NoData
    THEN ParsingError
    ELSE Parsed([event EXCEPT !.shape_id = el.shapeId,
                              !.presentation = el.presentation,
                              !.slide = el.pageNumber,
                              !.user_id = el.userId,
                              !.data = el.shapeData,
                              !.name = "tldraw.add_shape"])

parse_delete_shape(event, el) ==
    IF el.shapeId = Absent \/ el.presentation = Absent
       \/ el.pageNumber = NoNumber \/ el.userId = Absent
    THEN ParsingError
    ELSE Parsed([event EXCEPT !.shape_id = el.shapeId,
                              !.presentation = el.presentation,
                              !.slide = el.pageNumber,
                              !.user_id = el.userId,
                              !.name = "tldraw.delete_shape"])

\* The body of the for loop of parse_events for one element, after the
\* timestamp has been computed.
ParseElement(el, timestamp, use_pod_presenter) ==
    LET event == Event(el.eventname, timestamp)
    IN  IF el.module \notin {"PRESENTATION", "WHITEBOARD", "PARTICIPANT"}
        THEN Continue
        ELSE IF el.module = "PARTICIPANT" THEN
            CASE el.eventname = "AssignPresenterEvent" ->
                    IF use_pod_presenter THEN Continue
                    ELSE parse_presenter(event, el)
              [] el.eventname = "ParticipantJoinEvent" -> parse_join(event, el)
              [] el.eventname = "ParticipantLeftEvent" -> parse_left(event, el)
              [] el.eventname = "RecordStatusEvent" -> parse_record(event, el)
              [] OTHER -> Continue
        ELSE IF el.module = "PRESENTATION" THEN
            CASE el.eventname = "CursorMoveEvent" -> parse_cursor(event, el)
              [] el.eventname = "GotoSlideEvent" -> parse_slide(event, el)
              [] el.eventname = "ResizeAndMoveSlideEvent" -> parse_pan_zoom(event, el)
              [] el.eventname = "SetPresenterInPodEvent" -> parse_pod_presenter(event, el)
              [] el.eventname = "SharePresentationEvent" -> parse_presentation(event, el)
              [] el.eventname \in {"CreatePresentationPodEvent",
                                   "ConversionCompletedEvent",
                                   "GenerateSlideEvent",
                                   "SetPresentationDownloadable"} -> Continue
              [] OTHER -> ParsingError
        ELSE
            CASE el.eventname \in {"AddShapeEvent", "ModifyTextEvent"} ->
                    parse_shape(event, el)
              [] el.eventname = "AddTldrawShapeEvent" -> parse_add_shape(event, el)
              [] el.eventname \in {"ClearPageEvent", "ClearWhiteboardEvent"} ->
                    parse_clear(event, el)
              [] el.eventname = "DeleteTldrawShapeEvent" ->
                    parse_delete_shape(event, el)
              [] el.eventname \in {"UndoShapeEvent", "UndoAnnotationEvent"} ->
                    parse_undo(event, el)
              [] el.eventname = "WhiteboardCursorMoveEvent" ->
                    parse_whiteboard_cursor(event, el)
              [] OTHER -> ParsingError

\* One iteration of `for element in root.iter("event")`.  start_time = 0
\* also stands for None: the code tests `if not start_time`.
ParseStep(st, el) ==
    LET ts_i == el.timestamp
        start == IF st.start_time = 0 THEN ts_i ELSE st.start_time
        timestamp == Fraction(ts_i - start, 1000)
        r == ParseElement(el, timestamp, st.use_pod_presenter)
    IN  [st EXCEPT !.index = st.index + 1,
                   !.raised = (r.kind = "raise"),
                   !.start_time = start,
                   !.last_timestamp = timestamp,
                   !.have_record_events =
                        @ \/ (r.kind = "event" /\ r.event.name = "record"),
                   !.events = IF r.kind = "event"
                              THEN Append(@, [r.event EXCEPT !.element = st.index])
                              ELSE @]

RECURSIVE ParseLoop(_, _)
ParseLoop(st, elements) ==
    IF elements = <<>> \/ st.raised THEN st
    ELSE ParseLoop(ParseStep(st, Head(elements)), Tail(elements))

start_record == [Event("record", Fraction(0, 1000)) EXCEPT !.status = TRUE]

\* Variant: the made-up record event is appended instead of prepended.
parse_events_append(doc) ==
    LET st0 == [index |-> 1, start_time |-> 0, last_timestamp |-> NoneFrac,
                have_record_events |-> FALSE, events |-> <<>>,
                use_pod_presenter |-> doc.use_pod_presenter, raised |-> FALSE]
        st == ParseLoop(st0, doc.elements)
    IN  [events |-> IF st.have_record_events THEN st.events
                    ELSE st.events \o <<start_record>>,
         length |-> st.last_timestamp, raised |-> st.raised]

\* parse_events: returns the event deque and the recording length
\* (last_timestamp, NoneFrac when the file has no <event>), unless an
\* exception other than EventParsingError left the loop (raised).
parse_events(doc) ==
    LET st0 == [index |-> 1, start_time |-> 0, last_timestamp |-> NoneFrac,
                have_record_events |-> FALSE, events |-> <<>>,
                use_pod_presenter |-> doc.use_pod_presenter, raised |-> FALSE]
        st == ParseLoop(st0, doc.elements)
    IN  [events |-> IF st.have_record_events THEN st.events
                    ELSE <<start_record>> \o st.events,
         length |-> st.last_timestamp, raised |-> st.raised]

(***************************************************************************)
(* State.                                                                  *)
(***************************************************************************)
VARIABLES
    xml,            \* the parsed input file: [use_pod_presenter, elements]
    events,         \* Renderer.events (deque)
    length,         \* Renderer.length
    framestep,      \* Renderer.framestep
    pts,            \* Renderer.pts
    frame,          \* Renderer.frame
    recording,      \* Renderer.recording
    start_time,     \* Renderer.start_time
    pod_id,         \* Renderer.pod_id
    changed,        \* render's locals presentation_changed, shapes_changed,
                    \* tldraw_changed and cursor_changed
    pc,             \* position of the main thread (main / render / put / join)
    presentation,   \* render's PresentationRenderer
    shapes,         \* render's ShapesRenderer
    tldraw,         \* render's TldrawRenderer
    cursor,         \* render's CursorRenderer
    queue,          \* Encoder.queue: buffers (1..3) and the sentinel None
    ret_queue,      \* Encoder.ret_queue
    bufData,        \* contents of the three bytearrays
    putBuf,         \* local buf of Encoder.put (0 outside put)
    workerPc,       \* position of the encoder thread in Encoder.run
    workerBuf,      \* local buf of Encoder.run (0 before the first get)
    written,        \* what ffmpeg.stdin has received, in order
    stdin_closed,   \* ffmpeg.stdin.close() was called
    returncode,     \* ffmpeg.returncode (-1 until ffmpeg.wait() returned)
    exit_code,      \* exit status of the program (-1 while it runs)
    dispatched,     \* log: events handed to the layers, in order
    skipped,        \* log: events skipped for a foreign pod, in order
    pushed,         \* log: [pts, data] of every Encoder.put call, in order
    viewed,         \* log: presentation -> the slide it showed when last current
    shapeObj,       \* a tldraw Shape object (NoShape before from_data)
    shapeData,      \* the ShapeData document applied to it last
    updates,        \* number of update_from_data calls on it after from_data
    shapePc,        \* new / built / raised: what became of the shape object
    drawn,          \* what each layer's pattern shows (<<>> for no pattern)
    surface         \* Renderer.surface: what was painted from the patterns

rendererVars == <<events, length, framestep, pts, frame, recording, start_time,
                  pod_id, changed>>
layerVars == <<presentation, shapes, tldraw, cursor>>
encoderVars == <<queue, ret_queue, bufData, putBuf, workerPc, workerBuf,
                 written, stdin_closed, returncode>>
logVars == <<dispatched, skipped, pushed, viewed>>
shapeVars == <<shapeObj, shapeData, updates, shapePc>>
surfaceVars == <<drawn, surface>>
vars == <<xml, rendererVars, pc, layerVars, encoderVars, exit_code, logVars,
          shapeVars, surfaceVars>>

Sentinel == 0           \* the None put on Encoder.queue by Encoder.join
NumBuffers == 3         \* for x in range(0, 3)

EmptyDict == [k \in {} |-> 0]
DictGet(d, k, default) == IF k \in DOMAIN d THEN d[k] ELSE default
DictPut(d, k, v) == [x \in (DOMAIN d) \cup {k} |-> IF x = k THEN v ELSE d[x]]

(***************************************************************************)
(* The layers: their state and their event handlers.                       *)
(***************************************************************************)
\* A cairo pattern is identified by the number of the frame it was built
\* for; NoPattern is None.
NoPattern == 0

\* The files of the recording: presentation/<name>/<name>.pdf exists for
\* these names, with NumPages pages each.  A page size is a code: the
\* size of the logo, of the pages of A, of the pages of B; NoPageSize is
\* None and ViewportSize the fallback Size(self.size).
Assets == {"A", "B"}
\* presentation/D/D.pdf exists as well, but Poppler cannot read it (GLib.Error)
BrokenAssets == {"D"}
NumPages == 2
LOGO_FILE == "bbb_logo.pdf"
NoPageSize == -1
ViewportSize == 0
PageSizeOf(source) ==
    CASE source = LOGO_FILE -> 1
      [] source = "A" -> 2
      [] OTHER -> 3

\* Transform: what it is computed from.  The initial transform of
\* PresentationRenderer.__init__ is "mostly-valid, but useless".
Transform(page_size, pan, zoom) == [page_size |-> page_size, pan |-> pan, zoom |-> zoom]
InitialTransform == Transform(NoPageSize, 0, 1)
NoTransform == Transform(NoPageSize, 0, 0)      \* Optional[Transform] None

PresentationRenderer_init ==
    [presentation |-> None, presentation_slide |-> EmptyDict, slide |-> 0,
     pan |-> 0, zoom |-> 1,
     presentation_changed |-> TRUE, slide_changed |-> FALSE,
     pan_zoom_changed |-> FALSE,
     hide_logo |-> FALSE, filetype |-> "MISSING", source |-> None,
     page |-> FALSE, page_size |-> NoPageSize, pattern |-> NoPattern,
     trans |-> InitialTransform]

\* Variant: sharing another presentation keeps pan and zoom.
PresentationRenderer_update_presentation_keepzoom(self, event) ==
    IF self.presentation = event.presentation THEN self
    ELSE [self EXCEPT !.presentation = event.presentation,
                      !.presentation_changed = TRUE,
                      !.slide = DictGet(self.presentation_slide, event.presentation, 0),
                      !.pan_zoom_changed = TRUE]

PresentationRenderer_update_presentation(self, event) ==
    IF self.presentation = event.presentation THEN self
    ELSE [self EXCEPT !.presentation = event.presentation,
                      !.presentation_changed = TRUE,
                      !.slide = DictGet(self.presentation_slide, event.presentation, 0),
                      !.pan = 0, !.zoom = 1,
                      !.pan_zoom_changed = TRUE]

PresentationRenderer_update_slide(self, event) ==
    IF self.slide = event.slide THEN self
    ELSE [self EXCEPT !.slide = event.slide,
                      !.presentation_slide =
                          IF self.presentation # None
                          THEN DictPut(@, self.presentation, event.slide) ELSE @,
                      !.slide_changed = TRUE]

PresentationRenderer_update_pan_zoom(self, event) ==
    IF self.pan = event.pan /\ self.zoom = event.zoom THEN self
    ELSE [self EXCEPT !.pan = event.pan, !.zoom = event.zoom,
                      !.pan_zoom_changed = TRUE]

\* finalize_frame: the three cascading stages (source, page, transform) and
\* the rendering of the pattern; returns needs_render.  page is whether a
\* page was loaded.  Result: [self, changed].
PresentationRenderer_finalize_frame(self, frameNo) ==
    LET load == self.presentation_changed \/ self.source = None
        filetype ==
            IF ~load THEN self.filetype
            ELSE IF self.presentation = None /\ ~self.hide_logo THEN "PDF"
            ELSE IF self.presentation # None /\ self.presentation \in Assets THEN "PDF"
            ELSE "MISSING"
        source ==
            IF load /\ filetype = "PDF"
            THEN (IF self.presentation = None THEN LOGO_FILE ELSE self.presentation)
            ELSE self.source
        reload == self.slide_changed \/ load
        n_pages == IF source = LOGO_FILE THEN 1 ELSE NumPages
        page ==
            IF ~reload THEN self.page
            ELSE filetype = "PDF" /\ 0 <= self.slide /\ self.slide < n_pages
        page_size ==
            IF ~reload THEN self.page_size
            ELSE IF filetype = "PDF"
                 THEN (IF page THEN PageSizeOf(source) ELSE NoPageSize)
                 ELSE self.page_size
        needs_render == self.pan_zoom_changed \/ reload
        size == IF needs_render /\ page_size = NoPageSize THEN ViewportSize
                ELSE page_size
    IN  [self |-> [self EXCEPT
                     !.presentation =
                         IF load /\ self.presentation \in BrokenAssets THEN None
                         ELSE @,
                     !.filetype = filetype, !.source = source, !.page = page,
                     !.page_size = size,
                     !.trans = IF needs_render
                               THEN Transform(size, self.pan, self.zoom) ELSE @,
                     !.pattern = IF needs_render THEN frameNo ELSE @,
                     !.presentation_changed = FALSE, !.slide_changed = FALSE,
                     !.pan_zoom_changed = FALSE],
         changed |-> needs_render]

\* shapes: Dict[str, Dict[int, Deque[ShapeEvent]]], as a function from the
\* slots <<presentation, slide>> that exist to the deque of the slot.
ShapesRenderer_init ==
    [presentation |-> None, presentation_slide |-> EmptyDict, slide |-> 0,
     shapes |-> EmptyDict, transform |-> InitialTransform,
     pattern |-> NoPattern, shapes_changed |-> FALSE]

ShapesRenderer_update_presentation(self, event) ==
    IF self.presentation = event.presentation THEN self
    ELSE [self EXCEPT !.presentation = event.presentation,
                      !.shapes_changed = TRUE,
                      !.slide = DictGet(self.presentation_slide, event.presentation, 0)]

ShapesRenderer_update_slide(self, event) ==
    IF self.slide = event.slide THEN self
    ELSE [self EXCEPT !.slide = event.slide,
                      !.presentation_slide =
                          IF self.presentation # None
                          THEN DictPut(@, self.presentation, event.slide) ELSE @,
                      !.shapes_changed = TRUE]

ensure_shapes_structure(shapes_dict, p, s) ==
    IF <<p, s>> \in DOMAIN shapes_dict THEN shapes_dict
    ELSE DictPut(shapes_dict, <<p, s>>, <<>>)

\* event.get(key, default): the value of the key when the event has it.
\* parse_shape, parse_undo and parse_clear set presentation and slide on
\* every event (to None when the sub-element is absent).
HasKey(event, key) ==
    IF key = "full_clear" THEN event.full_clear # Absent ELSE TRUE
EventGet(event, key, default) == IF HasKey(event, key) THEN event[key] ELSE default

\* index of the first entry with the id, 0 when there is none
IndexOfId(deque, shape_id) ==
    IF \E i \in 1..Len(deque) : deque[i].shape_id = shape_id
    THEN CHOOSE i \in 1..Len(deque) :
            /\ deque[i].shape_id = shape_id
            /\ \A j \in 1..(i - 1) : deque[j].shape_id # shape_id
    ELSE 0

\* Locate the previous version of the shape: by id, or for an event
\* without id the last entry when type and first point agree.
PrevIndex(deque, event) ==
    IF event.shape_id # None THEN IndexOfId(deque, event.shape_id)
    ELSE IF Len(deque) > 0
            /\ deque[Len(deque)].points[1] = event.points[1]
            /\ deque[Len(deque)].shape_type = event.shape_type
         THEN Len(deque)
         ELSE 0

\* Variant: every shape event is appended, none replaces an entry.
ShapesRenderer_update_shape_append(self, event) ==
    LET pres == EventGet(event, "presentation", self.presentation)
        slide == EventGet(event, "slide", self.slide)
    IN  IF pres = None \/ slide = NoneSlide THEN self
        ELSE
        LET structured == ensure_shapes_structure(self.shapes, pres, slide)
        IN  [self EXCEPT
                !.shapes = [structured EXCEPT ![<<pres, slide>>] = Append(@, event)],
                !.shapes_changed = TRUE]

ShapesRenderer_update_shape(self, event) ==
    LET pres == EventGet(event, "presentation", self.presentation)
        slide == EventGet(event, "slide", self.slide)
    IN  IF pres = None \/ slide = NoneSlide THEN self
        ELSE
        LET structured == ensure_shapes_structure(self.shapes, pres, slide)
            deque == structured[<<pres, slide>>]
            prev_index == PrevIndex(deque, event)
            stored ==
                IF prev_index # 0 /\ event.shape_type = "pencil"
                   /\ event.shape_status = "DRAW_UPDATE"
                THEN [event EXCEPT !.points = deque[prev_index].points \o event.points]
                ELSE event
        IN  IF ~HasKey(event, "slide") /\ event.shape_type = "text"
               /\ event.shape_status = "DRAW_END"
            THEN [self EXCEPT !.shapes = structured]
            ELSE [self EXCEPT
                    !.shapes = [structured EXCEPT ![<<pres, slide>>] =
                                    IF prev_index # 0
                                    THEN [deque EXCEPT ![prev_index] = stored]
                                    ELSE Append(deque, stored)],
                    !.shapes_changed = TRUE]

\* Variant: an undo whose shape id is not in the slot removes the newest
\* shape.
ShapesRenderer_update_undo_newest(self, event) ==
    LET pres == EventGet(event, "presentation", self.presentation)
        slide == EventGet(event, "slide", self.slide)
    IN  IF pres = None \/ slide = NoneSlide THEN self
        ELSE
        LET structured == ensure_shapes_structure(self.shapes, pres, slide)
            deque == structured[<<pres, slide>>]
        IN  IF event.shape_id # None /\ IndexOfId(deque, event.shape_id) # 0
            THEN [self EXCEPT
                    !.shapes = [structured EXCEPT ![<<pres, slide>>] =
                        SelectSeq(deque, LAMBDA x : x.shape_id # event.shape_id)],
                    !.shapes_changed = TRUE]
            ELSE IF Len(deque) > 0
            THEN [self EXCEPT
                    !.shapes = [structured EXCEPT ![<<pres, slide>>] =
                                    SubSeq(deque, 1, Len(deque) - 1)],
                    !.shapes_changed = TRUE]
            ELSE [self EXCEPT !.shapes = structured]

ShapesRenderer_update_undo(self, event) ==
    LET pres == EventGet(event, "presentation", self.presentation)
        slide == EventGet(event, "slide", self.slide)
    IN  IF pres = None \/ slide = NoneSlide THEN self
        ELSE
        LET structured == ensure_shapes_structure(self.shapes, pres, slide)
            deque == structured[<<pres, slide>>]
        IN  IF event.shape_id # None
            THEN [self EXCEPT
                    !.shapes = [structured EXCEPT ![<<pres, slide>>] =
                        SelectSeq(deque, LAMBDA x : x.shape_id # event.shape_id)],
                    !.shapes_changed = TRUE]
            ELSE IF Len(deque) > 0
            THEN [self EXCEPT
                    !.shapes = [structured EXCEPT ![<<pres, slide>>] =
                                    SubSeq(deque, 1, Len(deque) - 1)],
                    !.shapes_changed = TRUE]
            ELSE [self EXCEPT !.shapes = structured]

\* Variant: every clear empties the slot.
ShapesRenderer_update_clear_all(self, event) ==
    LET pres == EventGet(event, "presentation", self.presentation)
        slide == EventGet(event, "slide", self.slide)
    IN  IF pres = None \/ slide = NoneSlide THEN self
        ELSE
        LET structured == ensure_shapes_structure(self.shapes, pres, slide)
        IN  [self EXCEPT
                !.shapes = [structured EXCEPT ![<<pres, slide>>] = <<>>],
                !.shapes_changed = TRUE]

ShapesRenderer_update_clear(self, event) ==
    LET pres == EventGet(event, "presentation", self.presentation)
        slide == EventGet(event, "slide", self.slide)
    IN  IF pres = None \/ slide = NoneSlide THEN self
        ELSE
        LET structured == ensure_shapes_structure(self.shapes, pres, slide)
            deque == structured[<<pres, slide>>]
        IN  IF EventGet(event, "full_clear", "true") = "true"
            THEN [self EXCEPT
                    !.shapes = [structured EXCEPT ![<<pres, slide>>] = <<>>],
                    !.shapes_changed = TRUE]
            ELSE [self EXCEPT
                    !.shapes = [structured EXCEPT ![<<pres, slide>>] =
                        SelectSeq(deque, LAMBDA x : x.user_id # event.user_id)],
                    !.shapes_changed = TRUE]

\* finalize_frame(transform): [self, changed]; shapes_changed is cleared in
\* the finally clause on every path.
ShapesRenderer_finalize_frame(self, transform, frameNo) ==
    IF ~self.shapes_changed /\ self.transform = transform
    THEN [self |-> [self EXCEPT !.shapes_changed = FALSE], changed |-> FALSE]
    ELSE IF self.presentation = None
            \/ <<self.presentation, self.slide>> \notin DOMAIN self.shapes
    THEN [self |-> [self EXCEPT !.transform = transform, !.pattern = NoPattern,
                                !.shapes_changed = FALSE],
          changed |-> self.pattern # NoPattern]
    ELSE [self |-> [self EXCEPT !.transform = transform, !.pattern = frameNo,
                                !.shapes_changed = FALSE],
          changed |-> TRUE]

\* shapes: Dict[str, Dict[int, ValueSortedDict]], as a function from the
\* slots <<presentation, slide>> that exist to the sequence of [id, shape]
\* in the iteration order of the ValueSortedDict.
TldrawRenderer_init ==
    [presentation |-> None, slide |-> NoneSlide,
     presentation_slide |-> EmptyDict, shapes |-> EmptyDict,
     transform |-> InitialTransform, pattern |-> NoPattern,
     shapes_changed |-> FALSE]

TldrawRenderer_presentation_event(self, event) ==
    IF self.presentation = event.presentation THEN self
    ELSE [self EXCEPT !.presentation = event.presentation,
                      !.slide = DictGet(self.presentation_slide, event.presentation, 0),
                      !.shapes_changed = TRUE]

TldrawRenderer_slide_event(self, event) ==
    IF self.presentation = None THEN self
    ELSE IF self.slide = event.slide THEN self
    ELSE [self EXCEPT !.slide = event.slide,
                      !.presentation_slide = DictPut(@, self.presentation, event.slide),
                      !.shapes_changed = TRUE]

TldrawTypes ==
    {"draw", "rectangle", "ellipse", "triangle", "arrow", "text", "group", "sticky"}

\* converter.structure(data, Shape) raises for an unknown type and for a
\* document that lacks an attribute without default (childIndex).
StructureRaises(data) ==
    data.type \notin TldrawTypes \/ data.childIndex = NoNumber

\* converter.structure(data, Shape): a new shape object; attributes of
\* Style that the document lacks get their defaults (isFilled: False).
structure(data) ==
    [type |-> data.type, childIndex |-> data.childIndex,
     isFilled |-> (data.isFilled = "true")]

shape_sort_key(shape) == shape.childIndex

ensure_shape_structure(shapes_dict, p, s) ==
    IF <<p, s>> \in DOMAIN shapes_dict THEN shapes_dict
    ELSE DictPut(shapes_dict, <<p, s>>, <<>>)

ValueSortedDict_has(vsd, id) == \E i \in 1..Len(vsd) : vsd[i].id = id

ValueSortedDict_delitem(vsd, id) == SelectSeq(vsd, LAMBDA e : e.id # id)

\* Variant: the value of a key that exists is replaced where it stands.
ValueSortedDict_setitem_inplace(vsd, id, shape) ==
    IF ValueSortedDict_has(vsd, id)
    THEN [i \in 1..Len(vsd) |->
            IF vsd[i].id = id THEN [id |-> id, shape |-> shape] ELSE vsd[i]]
    ELSE LET before == SelectSeq(vsd, LAMBDA e :
                            shape_sort_key(e.shape) <= shape_sort_key(shape))
             after == SelectSeq(vsd, LAMBDA e :
                            shape_sort_key(e.shape) > shape_sort_key(shape))
         IN  before \o <<[id |-> id, shape |-> shape]>> \o after

\* mapping[key] = value of ValueSortedDict(shape_sort_key): an existing key
\* is removed first, then the key is added after the keys whose sort key
\* is not greater.
ValueSortedDict_setitem(vsd, id, shape) ==
    LET rest == ValueSortedDict_delitem(vsd, id)
        before == SelectSeq(rest, LAMBDA e :
                        shape_sort_key(e.shape) <= shape_sort_key(shape))
        after == SelectSeq(rest, LAMBDA e :
                        shape_sort_key(e.shape) > shape_sort_key(shape))
    IN  before \o <<[id |-> id, shape |-> shape]>> \o after

\* add_shape_event, for data that converter.structure accepts
TldrawRenderer_add_shape_event(self, event) ==
    IF event.data.type = "image" THEN self
    ELSE LET structured == ensure_shape_structure(self.shapes, event.presentation,
                                                  event.slide)
             slot == <<event.presentation, event.slide>>
         IN  [self EXCEPT
                !.shapes = [structured EXCEPT ![slot] =
                    ValueSortedDict_setitem(@, event.shape_id, structure(event.data))],
                !.shapes_changed = TRUE]

\* Variant: a delete event removes nothing.
TldrawRenderer_delete_shape_event_keep(self, event) ==
    LET slot == <<event.presentation, event.slide>>
    IN  IF slot \notin DOMAIN self.shapes THEN self
        ELSE IF ~ValueSortedDict_has(self.shapes[slot], event.shape_id) THEN self
        ELSE [self EXCEPT !.shapes_changed = TRUE]

\* delete_shape_event: a KeyError (slot or id unknown) is swallowed
TldrawRenderer_delete_shape_event(self, event) ==
    LET slot == <<event.presentation, event.slide>>
    IN  IF slot \notin DOMAIN self.shapes THEN self
        ELSE IF ~ValueSortedDict_has(self.shapes[slot], event.shape_id) THEN self
        ELSE [self EXCEPT
                !.shapes = [@ EXCEPT ![slot] =
                                ValueSortedDict_delitem(@, event.shape_id)],
                !.shapes_changed = TRUE]

\* TldrawRenderer.update raises when add_shape_event does
TldrawRenderer_update_raises(event) ==
    /\ event.name = "tldraw.add_shape"
    /\ event.data.type # "image"
    /\ StructureRaises(event.data)

TldrawRenderer_update(self, event) ==
    CASE event.name = "presentation" -> TldrawRenderer_presentation_event(self, event)
      [] event.name = "slide" -> TldrawRenderer_slide_event(self, event)
      [] event.name = "tldraw.add_shape" -> TldrawRenderer_add_shape_event(self, event)
      [] event.name = "tldraw.delete_shape" ->
            TldrawRenderer_delete_shape_event(self, event)
      [] OTHER -> self

\* finalize_frame(transform): [self, changed].  Without a slot for the
\* current presentation and slide the pattern is dropped, the dirty flag
\* is left as it is and False is returned.
TldrawRenderer_finalize_frame(self, transform, frameNo) ==
    IF ~self.shapes_changed /\ self.transform = transform
    THEN [self |-> self, changed |-> FALSE]
    ELSE IF self.presentation = None \/ self.slide = NoneSlide
            \/ <<self.presentation, self.slide>> \notin DOMAIN self.shapes
    THEN [self |-> [self EXCEPT !.transform = transform, !.pattern = NoPattern],
          changed |-> FALSE]
    ELSE [self |-> [self EXCEPT !.transform = transform, !.pattern = frameNo,
                                !.shapes_changed = FALSE],
          changed |-> TRUE]

CursorRenderer_init ==
    [cursors |-> EmptyDict, legacy_cursor |-> 0, cursors_changed |-> FALSE,
     presenter |-> None, presentation |-> None,
     presentation_slide |-> EmptyDict, slide |-> 0,
     transform |-> NoTransform, pattern |-> NoPattern]

HideAll(cursors) == [u \in DOMAIN cursors |-> 0]

CursorRenderer_update_presentation(self, event) ==
    IF self.presentation = event.presentation THEN self
    ELSE [self EXCEPT !.presentation = event.presentation,
                      !.slide = DictGet(self.presentation_slide, event.presentation, 0),
                      !.cursors = HideAll(@),
                      !.cursors_changed = TRUE]

CursorRenderer_update_slide(self, event) ==
    IF self.slide = event.slide THEN self
    ELSE [self EXCEPT !.slide = event.slide,
                      !.presentation_slide =
                          IF self.presentation # None
                          THEN DictPut(@, self.presentation, event.slide) ELSE @,
                      !.cursors = HideAll(@),
                      !.cursors_changed = TRUE]

CursorRenderer_update_presenter(self, event) ==
    IF self.presenter = event.user_id THEN self
    ELSE [self EXCEPT !.presenter = event.user_id, !.cursors_changed = TRUE]

CursorRenderer_update_join(self, event) ==
    [self EXCEPT !.cursors = DictPut(@, event.user_id, 0)]

CursorRenderer_update_left(self, event) ==
    IF event.user_id \notin DOMAIN self.cursors THEN self
    ELSE [self EXCEPT
            !.cursors = [u \in (DOMAIN self.cursors) \ {event.user_id} |-> self.cursors[u]],
            !.cursors_changed = @ \/ self.cursors[event.user_id] # 0]

\* update_cursor: the legacy cursor
CursorRenderer_update_cursor(self, event) ==
    IF self.legacy_cursor = event.cursor THEN self
    ELSE [self EXCEPT !.legacy_cursor = event.cursor, !.cursors_changed = TRUE]

\* update_cursor_v2: an event that names a presentation or a slide is
\* ignored unless both are the current ones.
CursorRenderer_update_cursor_v2(self, event) ==
    IF /\ event.presentation # None \/ event.slide # NoneSlide
       /\ event.presentation # self.presentation \/ event.slide # self.slide
    THEN self
    ELSE IF event.user_id \notin DOMAIN self.cursors THEN self
    ELSE IF self.cursors[event.user_id] = event.cursor THEN self
    ELSE [self EXCEPT !.cursors = DictPut(@, event.user_id, event.cursor),
                      !.cursors_changed = TRUE]

\* update_shape reads event["shape_status"], which raises KeyError when the
\* key was never set.
CursorRenderer_update_shape_raises(self, event) ==
    /\ event.user_id # None
    /\ event.presentation = self.presentation /\ event.slide = self.slide
    /\ DictGet(self.cursors, event.user_id, 0) # 0
    /\ event.shape_type \in {"pencil", "rectangle", "ellipse", "triangle", "line"}
    /\ event.shape_status = Absent

\* Variant: the cursor follows the shape also on DRAW_END.
CursorRenderer_update_shape_late(self, event) ==
    IF event.user_id = None THEN self
    ELSE IF event.presentation # self.presentation \/ event.slide # self.slide
    THEN self
    ELSE IF DictGet(self.cursors, event.user_id, 0) = 0 THEN self
    ELSE IF event.shape_type \in {"pencil", "rectangle", "ellipse", "triangle", "line"}
    THEN [self EXCEPT !.cursors = DictPut(@, event.user_id,
                                          event.points[Len(event.points)]),
                      !.cursors_changed = TRUE]
    ELSE self

\* update_shape: the cursor of the user who draws follows the last point of
\* the shape, when it is drawn on the current slide and the cursor is shown.
CursorRenderer_update_shape(self, event) ==
    IF event.user_id = None THEN self
    ELSE IF event.presentation # self.presentation \/ event.slide # self.slide
    THEN self
    ELSE IF DictGet(self.cursors, event.user_id, 0) = 0 THEN self
    ELSE IF event.shape_type \in {"pencil", "rectangle", "ellipse", "triangle", "line"}
            /\ event.shape_status # "DRAW_END"
    THEN [self EXCEPT !.cursors = DictPut(@, event.user_id,
                                          event.points[Len(event.points)]),
                      !.cursors_changed = TRUE]
    ELSE self

\* finalize_frame(transform): [self, changed]
CursorRenderer_finalize_frame(self, transform, frameNo) ==
    IF ~self.cursors_changed /\ self.transform = transform
    THEN [self |-> self, changed |-> FALSE]
    ELSE [self |-> [self EXCEPT !.transform = transform, !.pattern = frameNo,
                                !.cursors_changed = FALSE],
          changed |-> TRUE]

(***************************************************************************)
(* renderer/tldraw/shape: the shape classes, from_data and update_from_data.*)
(* A ShapeData document (a JSON object) is a function from the keys it has *)
(* to their values; JSON null is None.  Of the fields of a shape the model *)
(* keeps the origin, the size, the rotation, the label, the text, the      *)
(* vertical alignment and the two arrow decorations; style, childIndex,    *)
(* opacity, parentId, labelPoint, align, bend and the handles are assigned *)
(* from their keys like rotation is and are left out.                      *)
(***************************************************************************)
NoShape == [cls |-> "NoShape"]

Has(d, key) == key \in DOMAIN d                 \* "key" in data

DecorationValues ==
    {"arrow", "bar", "diamond", "dot", "inverted", "none", "square", "triangle"}

ArrowClasses == {"ArrowShape", "ArrowShape_v2"}

\* cls(): the attrs defaults of the class.  A field the class does not have
\* holds the value given here for good.
Shape_new(cls) ==
    [cls |-> cls,
     point |-> <<0, 0>>,
     size |-> IF cls \in {"StickyShape", "StickyShape_v2"} THEN <<200, 200>>
              ELSE IF cls \in {"RectangleShape", "RectangleGeo"} THEN <<1, 1>>
              ELSE <<0, 0>>,
     rotation |-> 0,
     label |-> None,
     text |-> "",
     verticalAlign |-> "middle",
     decorations |-> [start |-> None,
                      end |-> IF cls \in ArrowClasses THEN "arrow" ELSE None]]

BaseShapeProto_update_from_data(self, d) ==
    [self EXCEPT !.point = IF Has(d, "point") THEN <<d.point[1], d.point[2]>>
                           ELSE IF Has(d, "x") /\ Has(d, "y") THEN <<d.x, d.y>>
                           ELSE @]

\* props w and h win over size, being read after it
SizedShapeProto_update_from_data(self, d) ==
    [BaseShapeProto_update_from_data(self, d) EXCEPT
        !.size = IF Has(d, "props") /\ Has(d.props, "w") /\ Has(d.props, "h")
                 THEN <<d.props.w,
                        d.props.h + (IF Has(d.props, "growY") THEN d.props.growY
                                     ELSE 0)>>
                 ELSE IF Has(d, "size") THEN d.size
                 ELSE @]

RotatableShapeProto_update_from_data(self, d) ==
    [SizedShapeProto_update_from_data(self, d) EXCEPT
        !.rotation = IF Has(d, "rotation") THEN d.rotation ELSE @]

\* label is set from label, then from props text, then from props name
LabelledShapeProto_update_from_data(self, d) ==
    [RotatableShapeProto_update_from_data(self, d) EXCEPT
        !.label = IF Has(d, "props") /\ Has(d.props, "w") /\ Has(d.props, "h")
                     /\ Has(d.props, "name") /\ d.props.name # ""
                  THEN d.props.name
                  ELSE IF Has(d, "props") /\ Has(d.props, "text") THEN d.props.text
                  ELSE IF Has(d, "label")
                  THEN (IF d.label # "" THEN d.label ELSE None)
                  ELSE @,
        !.verticalAlign = IF Has(d, "props") /\ Has(d.props, "verticalAlign")
                          THEN d.props.verticalAlign ELSE @]

TextShape_update_from_data(self, d) ==
    [RotatableShapeProto_update_from_data(self, d) EXCEPT
        !.text = IF Has(d, "text") THEN d.text ELSE @]

TextShape_v2_update_from_data(self, d) ==
    [RotatableShapeProto_update_from_data(self, d) EXCEPT
        !.text = IF Has(d, "props") /\ Has(d.props, "text") THEN d.props.text
                 ELSE @]

\* StickyShape.update_from_data is TextShape.update_from_data word for word.
\* In StickyShape_v2 growY is added to the height the object has after
\* super().update_from_data(data).
StickyShape_v2_update_from_data(self, d) ==
    [RotatableShapeProto_update_from_data(self, d) EXCEPT
        !.text = IF Has(d, "props") /\ Has(d.props, "text") THEN d.props.text
                 ELSE @,
        !.verticalAlign =
            IF Has(d, "props") /\ Has(d.props, "growY") /\ d.props.growY # 0
            THEN "start"
            ELSE IF Has(d, "props") /\ Has(d.props, "verticalAlign")
            THEN d.props.verticalAlign
            ELSE @,
        !.size = IF Has(d, "props") /\ Has(d.props, "growY")
                 THEN <<@[1], @[2] + d.props.growY>>
                 ELSE @]

\* Decoration(value) raises ValueError for a value that is no member of the
\* enumeration, None included.
DecorationRaises(d, key) == Has(d, key) /\ d[key] \notin DecorationValues

\* Variant: an end whose key is absent keeps the decoration it has.
ArrowDecorations_update_from_data_keep(self, d) ==
    [self |->
        [start |-> IF DecorationRaises(d, "start") \/ ~Has(d, "start")
                   THEN self.start ELSE d.start,
         end |-> IF DecorationRaises(d, "start") \/ DecorationRaises(d, "end")
                    \/ ~Has(d, "end")
                 THEN self["end"] ELSE d["end"]],
     raised |-> DecorationRaises(d, "start") \/ DecorationRaises(d, "end")]

\* self.start = ...; self.end = ...: an assignment whose Decoration() raises
\* does not happen, nor does the one after it.
\* Result: [self, raised], self being the ArrowDecorations object.
ArrowDecorations_update_from_data(self, d) ==
    [self |->
        [start |-> IF DecorationRaises(d, "start") THEN self.start
                   ELSE IF Has(d, "start") THEN d.start
                   ELSE None,
         end |-> IF DecorationRaises(d, "start") \/ DecorationRaises(d, "end")
                 THEN self["end"]
                 ELSE IF Has(d, "end") THEN d["end"]
                 ELSE None],
     raised |-> DecorationRaises(d, "start") \/ DecorationRaises(d, "end")]

\* Result: [self, raised]
ArrowShape_update_from_data(self, d) ==
    [self |->
        [LabelledShapeProto_update_from_data(self, d) EXCEPT
            !.decorations =
                IF Has(d, "decorations")
                THEN ArrowDecorations_update_from_data(@, d.decorations).self
                ELSE @],
     raised |->
        /\ Has(d, "decorations")
        /\ ArrowDecorations_update_from_data(self.decorations, d.decorations).raised]

\* Result: [self, raised]
ArrowShape_v2_update_from_data(self, d) ==
    [self |->
        [LabelledShapeProto_update_from_data(self, d) EXCEPT
            !.decorations.start =
                IF Has(d, "props") /\ Has(d.props, "arrowheadStart")
                   /\ ~DecorationRaises(d.props, "arrowheadStart")
                THEN d.props.arrowheadStart ELSE @,
            !.decorations["end"] =
                IF Has(d, "props") /\ Has(d.props, "arrowheadEnd")
                   /\ ~DecorationRaises(d.props, "arrowheadStart")
                   /\ ~DecorationRaises(d.props, "arrowheadEnd")
                THEN d.props.arrowheadEnd ELSE @],
     raised |->
        /\ Has(d, "props")
        /\ \/ DecorationRaises(d.props, "arrowheadStart")
           \/ DecorationRaises(d.props, "arrowheadEnd")]

Completed(s) == [self |-> s, raised |-> FALSE]

\* shape.update_from_data(data), resolved by the class of the object.
\* Result: [self, raised]
Shape_update_from_data(self, d) ==
    CASE self.cls = "ArrowShape" -> ArrowShape_update_from_data(self, d)
      [] self.cls = "ArrowShape_v2" -> ArrowShape_v2_update_from_data(self, d)
      [] self.cls \in {"RectangleShape", "RectangleGeo"} ->
            Completed(LabelledShapeProto_update_from_data(self, d))
      [] self.cls \in {"TextShape", "StickyShape"} ->
            Completed(TextShape_update_from_data(self, d))
      [] self.cls = "TextShape_v2" ->
            Completed(TextShape_v2_update_from_data(self, d))
      [] self.cls = "StickyShape_v2" ->
            Completed(StickyShape_v2_update_from_data(self, d))
      [] OTHER -> Completed(BaseShapeProto_update_from_data(self, d))

\* cls.from_data(data): shape = cls(); shape.update_from_data(data); an
\* exception leaves the caller without the object (NoShape).
OrNoShape(r) == IF r.raised THEN [self |-> NoShape, raised |-> TRUE] ELSE r

BaseShapeProto_from_data(cls, d) ==
    OrNoShape(Shape_update_from_data(Shape_new(cls), d))

\* The class parse_shape_from_data picks, "raise" where it raises (a geo
\* document without props is a KeyError, an unknown type or geo an Exception).
ShapeClassOf(d, is_tldraw_v2) ==
    CASE d.type = "rectangle" -> "RectangleShape"
      [] d.type = "arrow" -> IF ~is_tldraw_v2 THEN "ArrowShape" ELSE "ArrowShape_v2"
      [] d.type = "text" -> IF ~is_tldraw_v2 THEN "TextShape" ELSE "TextShape_v2"
      [] d.type = "group" -> "GroupShape"
      [] d.type = "sticky" -> "StickyShape"
      [] d.type = "note" -> "StickyShape_v2"
      [] d.type = "geo" ->
            IF ~Has(d, "props") THEN "raise"
            ELSE IF Has(d.props, "geo") /\ d.props.geo = "rectangle"
            THEN "RectangleGeo"
            ELSE "raise"
      [] OTHER -> "raise"

\* Result: [self, raised]
parse_shape_from_data(d, is_tldraw_v2) ==
    IF ShapeClassOf(d, is_tldraw_v2) = "raise"
    THEN [self |-> NoShape, raised |-> TRUE]
    ELSE BaseShapeProto_from_data(ShapeClassOf(d, is_tldraw_v2), d)

(***************************************************************************)
(* What the layers paint.  A picture stands for the pixels of a pattern:   *)
(* the state the drawing code of finalize_frame reads, <<>> when it draws  *)
(* nothing.                                                                *)
(***************************************************************************)
BlankLayers == [presentation |-> <<>>, shapes |-> <<>>, tldraw |-> <<>>,
                cursor |-> <<>>]

\* the page of the slide of the presentation under the pan and zoom
PresentationRenderer_picture(self) ==
    <<self.presentation, self.slide, self.pan, self.zoom>>

\* for shape in self.shapes[self.presentation][self.slide]: draw
ShapesRenderer_picture(self, transform) ==
    IF <<self.presentation, self.slide>> \in DOMAIN self.shapes
       /\ self.shapes[<<self.presentation, self.slide>>] # <<>>
    THEN <<self.shapes[<<self.presentation, self.slide>>], transform>>
    ELSE <<>>

TldrawRenderer_picture(self, transform) ==
    IF <<self.presentation, self.slide>> \in DOMAIN self.shapes
       /\ self.shapes[<<self.presentation, self.slide>>] # <<>>
    THEN <<self.shapes[<<self.presentation, self.slide>>], transform>>
    ELSE <<>>

\* the legacy cursor and every cursor with a position, the presenter's in
\* its own colour
CursorRenderer_picture(self, transform) ==
    IF self.legacy_cursor = 0 /\ \A u \in DOMAIN self.cursors : self.cursors[u] = 0
    THEN <<>>
    ELSE <<self.legacy_cursor,
           [u \in {v \in DOMAIN self.cursors : self.cursors[v] # 0} |->
               self.cursors[u]],
           self.presenter, transform>>

\* The picture in a layer's pattern after finalize_frame: the old one when
\* the pattern object was kept, none when it was dropped, the new drawing
\* when it was built.
Repainted(before, after, old, new) ==
    IF after.pattern = before.pattern THEN old
    ELSE IF after.pattern = NoPattern THEN <<>>
    ELSE new

(***************************************************************************)
(* Inputs: events.xml documents and command-line arguments.                *)
(***************************************************************************)
RawBase == 1000         \* raw timestamp of the first second of a document
RawTimes == {RawBase + 1000 * k : k \in 0..MaxSeconds}

RecordStatusEvent(ts, status) ==
    Element(ts, "PARTICIPANT", "RecordStatusEvent", Absent, status, NoNumber)
ParticipantJoinEvent(ts, user) ==
    Element(ts, "PARTICIPANT", "ParticipantJoinEvent", Absent, user, NoNumber)
VoiceEvent(ts) ==
    Element(ts, "VOICE", "ParticipantTalkingEvent", Absent, Absent, NoNumber)
SharePresentationEvent(ts, pod, name) ==
    Element(ts, "PRESENTATION", "SharePresentationEvent", pod, name, NoNumber)
GotoSlideEvent(ts, pod, slide) ==
    Element(ts, "PRESENTATION", "GotoSlideEvent", pod, Absent, slide)
ResizeAndMoveSlideEvent(ts, pod, ratio) ==
    Element(ts, "PRESENTATION", "ResizeAndMoveSlideEvent", pod, Absent, ratio)
SetPresenterInPodEvent(ts, pod, user) ==
    Element(ts, "PRESENTATION", "SetPresenterInPodEvent", pod, user, NoNumber)
WhiteboardCursorMoveEvent(ts, user, pos) ==
    Element(ts, "WHITEBOARD", "WhiteboardCursorMoveEvent", Absent, user, pos)
CursorMoveEvent(ts, pos) ==
    Element(ts, "PRESENTATION", "CursorMoveEvent", Absent, Absent, pos)

\* events.xml is written by the recorder in time order: the raw timestamps
\* of a document never decrease.
TimeOrdered(elements) ==
    \A i \in 1..(Len(elements) - 1) :
        elements[i].timestamp <= elements[i + 1].timestamp

DocsOver(catalog, maxLen) ==
    UNION {{d \in [1..n -> catalog] : TimeOrdered(d)} : n \in 0..maxLen}

SchedulerCatalog ==
    UNION {{RecordStatusEvent(t, "true"), RecordStatusEvent(t, "false"),
            ParticipantJoinEvent(t, "u1"), VoiceEvent(t)} : t \in RawTimes}

\* Renderer.__init__ (with main's call of parse_events) and the other
\* constructors run by render.  An exception that leaves parse_events ends
\* the program there, with status 1.
InitWith(doc, framerate, start, end, pod) ==
    LET parsed == parse_events(doc)
    IN  /\ xml = doc
        /\ events = IF parsed.raised THEN <<>> ELSE parsed.events
        /\ length = IF parsed.raised THEN NoneFrac
                    ELSE IF parsed.length # NoneFrac /\ end # NoneFrac
                       /\ FracLt(end, parsed.length)
                    THEN end ELSE parsed.length
        /\ framestep = FracInv(framerate)
        /\ pts = Fraction(0, 1)
        /\ frame = 1
        /\ recording = FALSE
        /\ start_time = IF start # NoneFrac THEN start ELSE FracZero
        /\ pod_id = pod
        /\ changed = [presentation |-> TRUE, shapes |-> FALSE, tldraw |-> FALSE,
                      cursor |-> FALSE]
        /\ pc = IF parsed.raised THEN "exited" ELSE "main"
        /\ presentation = PresentationRenderer_init
        /\ shapes = ShapesRenderer_init
        /\ tldraw = TldrawRenderer_init
        /\ cursor = CursorRenderer_init
        /\ queue = <<>>
        /\ ret_queue = [i \in 1..NumBuffers |-> i]
        /\ bufData = [i \in 1..NumBuffers |-> 0]
        /\ putBuf = 0
        /\ workerPc = "unstarted"
        /\ workerBuf = 0
        /\ written = <<>>
        /\ stdin_closed = FALSE
        /\ returncode = -1
        /\ exit_code = IF parsed.raised THEN 1 ELSE -1
        /\ dispatched = <<>>
        /\ skipped = <<>>
        /\ pushed = <<>>
        /\ viewed = EmptyDict
        /\ shapeObj = NoShape
        /\ shapeData = EmptyDict
        /\ updates = 0
        /\ shapePc = "new"
        /\ drawn = BlankLayers
        /\ surface = BlankLayers

Init ==
    \E elements \in DocsOver(SchedulerCatalog, MaxEvents) :
        InitWith([use_pod_presenter |-> TRUE, elements |-> elements],
                 Fraction(2, 1), NoneFrac, NoneFrac, DEFAULT_PRESENTATION_POD)

\* Scenarios of the frame clock: few events, every combination of frame
\* rate, start and end.
ClockCatalog ==
    UNION {{RecordStatusEvent(t, "true"), RecordStatusEvent(t, "false"),
            VoiceEvent(t)} : t \in RawTimes}

Framerates == {Fraction(1, 1), Fraction(3, 2)}
StartTimes == {NoneFrac, Fraction(1, 2), Fraction(5, 2)}
EndTimes == {NoneFrac, Fraction(3, 2)}

InitClock ==
    \E elements \in DocsOver(ClockCatalog, MaxClockEvents),
       framerate \in Framerates, start \in StartTimes, end \in EndTimes :
        InitWith([use_pod_presenter |-> TRUE, elements |-> elements],
                 framerate, start, end, DEFAULT_PRESENTATION_POD)

\* Scenarios of the pod filter: user u1 joins, presentation A is shared in
\* the default pod and u1's cursor is shown; then per-pod events for the
\* default pod and for pod2 follow, and the recording lasts one second.
Pods == {DEFAULT_PRESENTATION_POD, "pod2"}

PodOpening ==
    <<ParticipantJoinEvent(RawBase, "u1"),
      SharePresentationEvent(RawBase, Absent, "A"),
      WhiteboardCursorMoveEvent(RawBase, "u1", 1)>>

PodCatalog ==
    UNION {{SharePresentationEvent(RawBase, pod, "A"),
            SharePresentationEvent(RawBase, pod, "B"),
            GotoSlideEvent(RawBase, pod, 1),
            ResizeAndMoveSlideEvent(RawBase, pod, 2),
            SetPresenterInPodEvent(RawBase, pod, "u1")} : pod \in Pods}

InitPod ==
    \E elements \in DocsOver(PodCatalog, MaxPodEvents), pod \in Pods :
        InitWith([use_pod_presenter |-> TRUE,
                  elements |-> PodOpening \o elements
                               \o <<VoiceEvent(RawBase + 1000)>>],
                 Fraction(2, 1), Fraction(1, 2), NoneFrac, pod)

\* Scenarios of the tldraw whiteboard (recorder 2.6): presentation A is
\* shared; shapes s1 and s2 are added to page 0 of A, changed and deleted,
\* and the slide changes, at second 0 or second 1; the recording lasts 1.5
\* seconds and the frames of 0.5 s and 1 s are rendered.
AddTldrawShapeEvent(ts, id, pres, page, data) ==
    [Element(ts, "WHITEBOARD", "AddTldrawShapeEvent", Absent, Absent, NoNumber)
        EXCEPT !.shapeId = id, !.presentation = pres, !.pageNumber = page,
               !.userId = "u1", !.shapeData = data]
DeleteTldrawShapeEvent(ts, id, pres, page) ==
    [Element(ts, "WHITEBOARD", "DeleteTldrawShapeEvent", Absent, Absent, NoNumber)
        EXCEPT !.shapeId = id, !.presentation = pres, !.pageNumber = page,
               !.userId = "u1"]

FilledBack == ShapeData("rectangle", 2, "true")     \* filled, childIndex 2
PlainFront == ShapeData("rectangle", 1, Absent)     \* no isFilled, childIndex 1
ImageData == ShapeData("image", 1, Absent)
PartialData == ShapeData("rectangle", NoNumber, "true")     \* no childIndex

TldrawTimes == {RawBase, RawBase + 1000}

TldrawCatalog ==
    UNION {{AddTldrawShapeEvent(t, "s1", "A", 0, FilledBack),
            AddTldrawShapeEvent(t, "s1", "A", 0, PlainFront),
            AddTldrawShapeEvent(t, "s2", "A", 0, FilledBack),
            AddTldrawShapeEvent(t, "s2", "A", 0, PlainFront),
            AddTldrawShapeEvent(t, "s2", "A", 0, ImageData),
            AddTldrawShapeEvent(t, "s1", "A", 0, PartialData),
            DeleteTldrawShapeEvent(t, "s1", "A", 0),
            GotoSlideEvent(t, Absent, 1)} : t \in TldrawTimes}

TldrawDoc(elements) ==
    [use_pod_presenter |-> TRUE,
     elements |-> <<SharePresentationEvent(RawBase, Absent, "A")>> \o elements
                  \o <<VoiceEvent(RawBase + 1500)>>]

InitTldraw ==
    \E elements \in DocsOver(TldrawCatalog, MaxTldrawEvents) :
        InitWith(TldrawDoc(elements), Fraction(2, 1), Fraction(1, 2), NoneFrac,
                 DEFAULT_PRESENTATION_POD)

\* Scenarios of the legacy whiteboard: presentation A is shared and user
\* u1 has drawn rectangle r3 on page 1; then, all in the first second,
\* shape, undo and clear events follow: pencil p1 of u1 on page 0 in its
\* three stages, a pencil without id that starts where p1 starts, rectangle
\* r1 without presentation and page number, rectangle r2 of u2.  One frame
\* is rendered.
AddShapeEvent(ts, id, pres, page, type, status, user, points) ==
    [Element(ts, "WHITEBOARD", "AddShapeEvent", Absent, Absent, NoNumber)
        EXCEPT !.shapeId = id, !.presentation = pres, !.pageNumber = page,
               !.type = type, !.status = status, !.userId = user,
               !.dataPoints = points]
UndoShapeEvent(ts, id, pres, page) ==
    [Element(ts, "WHITEBOARD", "UndoShapeEvent", Absent, Absent, NoNumber)
        EXCEPT !.shapeId = id, !.presentation = pres, !.pageNumber = page]
ClearPageEvent(ts, pres, page, user, fullClear) ==
    [Element(ts, "WHITEBOARD", "ClearPageEvent", Absent, Absent, NoNumber)
        EXCEPT !.presentation = pres, !.pageNumber = page, !.userId = user,
               !.fullClear = fullClear]

ShapesOpening ==
    <<SharePresentationEvent(RawBase, Absent, "A"),
      AddShapeEvent(RawBase, "r3", "A", 1, "rectangle", "DRAW_END", "u1", <<10, 60>>)>>

ShapesCatalog ==
    {AddShapeEvent(RawBase, "p1", "A", 0, "pencil", "DRAW_START", "u1", <<10, 20>>),
     AddShapeEvent(RawBase, "p1", "A", 0, "pencil", "DRAW_UPDATE", "u1", <<30>>),
     AddShapeEvent(RawBase, "p1", "A", 0, "pencil", "DRAW_END", "u1", <<30, 40>>),
     AddShapeEvent(RawBase, Absent, "A", 0, "pencil", "DRAW_START", "u1", <<10, 50>>),
     AddShapeEvent(RawBase, "r1", Absent, NoNumber, "rectangle", "DRAW_END", "u1",
                   <<10, 50>>),
     AddShapeEvent(RawBase, "r2", "A", 0, "rectangle", "DRAW_END", "u2", <<20, 50>>),
     UndoShapeEvent(RawBase, "p1", "A", 0),
     UndoShapeEvent(RawBase, "zz", "A", 0),
     UndoShapeEvent(RawBase, Absent, "A", 0),
     ClearPageEvent(RawBase, "A", 0, "u1", "false"),
     ClearPageEvent(RawBase, "A", 0, "u1", "true")}

ShapesDoc(elements) ==
    [use_pod_presenter |-> TRUE,
     elements |-> ShapesOpening \o elements \o <<VoiceEvent(RawBase + 1000)>>]

InitShapes ==
    \E elements \in DocsOver(ShapesCatalog, MaxShapeEvents) :
        InitWith(ShapesDoc(elements), Fraction(2, 1), Fraction(1, 2), NoneFrac,
                 DEFAULT_PRESENTATION_POD)

\* Both whiteboards, with shorter documents.
InitBoard ==
    \/ \E elements \in DocsOver(TldrawCatalog, MaxBoardEvents) :
            InitWith(TldrawDoc(elements), Fraction(2, 1), Fraction(1, 2), NoneFrac,
                     DEFAULT_PRESENTATION_POD)
    \/ \E elements \in DocsOver(ShapesCatalog, MaxBoardEvents) :
            InitWith(ShapesDoc(elements), Fraction(2, 1), Fraction(1, 2), NoneFrac,
                     DEFAULT_PRESENTATION_POD)

\* Scenarios of the presentation layer: presentations A and B are shared
\* in turn, slides are changed and the view is zoomed, all in the first
\* second; one frame is rendered.
PresCatalog ==
    {SharePresentationEvent(RawBase, Absent, "A"),
     SharePresentationEvent(RawBase, Absent, "B"),
     GotoSlideEvent(RawBase, Absent, 0),
     GotoSlideEvent(RawBase, Absent, 1),
     ResizeAndMoveSlideEvent(RawBase, Absent, 2)}

InitPres ==
    \E elements \in DocsOver(PresCatalog, MaxPresEvents) :
        InitWith([use_pod_presenter |-> TRUE,
                  elements |-> elements \o <<VoiceEvent(RawBase + 1000)>>],
                 Fraction(2, 1), Fraction(1, 2), NoneFrac, DEFAULT_PRESENTATION_POD)

\* Scenarios of the cursors: presentation A is shared, u1 and u2 have
\* joined, u1 presents and the cursor of u2 is shown; then, all in the
\* first second, cursors move, the slide or the presentation changes, u1
\* and u2 draw and u1 joins again.  One frame is rendered.
CursorOpening ==
    <<SharePresentationEvent(RawBase, Absent, "A"),
      ParticipantJoinEvent(RawBase, "u1"),
      ParticipantJoinEvent(RawBase, "u2"),
      SetPresenterInPodEvent(RawBase, DEFAULT_PRESENTATION_POD, "u1"),
      WhiteboardCursorMoveEvent(RawBase, "u2", 1)>>

CursorCatalog ==
    {WhiteboardCursorMoveEvent(RawBase, "u1", 1),
     CursorMoveEvent(RawBase, 1),
     GotoSlideEvent(RawBase, Absent, 1),
     SharePresentationEvent(RawBase, Absent, "B"),
     AddShapeEvent(RawBase, "p1", "A", 0, "pencil", "DRAW_UPDATE", "u1", <<10, 20>>),
     AddShapeEvent(RawBase, "p1", "A", 0, "pencil", "DRAW_END", "u1", <<30, 40>>),
     AddShapeEvent(RawBase, "t1", "A", 0, "text", "DRAW_UPDATE", "u1", <<50, 60>>),
     AddShapeEvent(RawBase, "r2", "A", 0, "rectangle", "DRAW_UPDATE", "u2", <<20, 50>>),
     AddShapeEvent(RawBase, "r4", "A", 1, "rectangle", "DRAW_UPDATE", "u1", <<20, 70>>),
     ParticipantJoinEvent(RawBase, "u1")}

InitCursor ==
    \E elements \in DocsOver(CursorCatalog, MaxCursorEvents) :
        InitWith([use_pod_presenter |-> TRUE,
                  elements |-> CursorOpening \o elements
                               \o <<VoiceEvent(RawBase + 1000)>>],
                 Fraction(2, 1), Fraction(1, 2), NoneFrac, DEFAULT_PRESENTATION_POD)

\* Scenarios of parsing: the raw timestamp of the first element is 0 or
\* RawBase; presentation A is shared, u1 has joined and u1's cursor is
\* shown; then elements follow that parse_events accepts, rejects with an
\* EventParsingError (an unknown PRESENTATION event, a pencil DRAW_END
\* without dataPoints) or fails on (a shape with neither status nor
\* dataPoints), and a shape without status, in the same second or one
\* second later.
FirstRawTimes == {0, RawBase}

ParseOpening(base) ==
    <<SharePresentationEvent(base, Absent, "A"),
      ParticipantJoinEvent(base, "u1"),
      WhiteboardCursorMoveEvent(base, "u1", 1)>>

ParseCatalog(base) ==
    UNION {{ParticipantJoinEvent(t, "u2"),
            Element(t, "PRESENTATION", "UnknownEvent", Absent, Absent, NoNumber),
            AddShapeEvent(t, "p1", "A", 0, "pencil", "DRAW_START", "u2", <<10, 20>>),
            AddShapeEvent(t, "p1", "A", 0, "pencil", "DRAW_END", "u2", <<>>),
            AddShapeEvent(t, "p1", "A", 0, "pencil", Absent, "u2", <<>>),
            AddShapeEvent(t, "r1", "A", 0, "rectangle", Absent, "u1", <<10, 50>>)}
           : t \in {base, base + 1000}}

InitParse ==
    \E base \in FirstRawTimes :
        \E elements \in DocsOver(ParseCatalog(base), MaxParseEvents) :
            InitWith([use_pod_presenter |-> TRUE,
                      elements |-> ParseOpening(base) \o elements
                                   \o <<VoiceEvent(base + 1500)>>],
                     Fraction(2, 1), Fraction(1, 2), NoneFrac,
                     DEFAULT_PRESENTATION_POD)

\* Scenarios of an unreadable presentation file: D and A are shared,
\* slides change and a user joins, in the first second or in the second
\* one; frames are rendered from pts 0 or from start_time 1/2 on, so D is
\* loaded (and fails) between the two seconds.
AssetCatalog ==
    UNION {{SharePresentationEvent(t, Absent, "D"),
            SharePresentationEvent(t, Absent, "A"),
            GotoSlideEvent(t, Absent, 1),
            ParticipantJoinEvent(t, "u1")}
           : t \in {RawBase, RawBase + 1000}}

InitAssets ==
    \E elements \in DocsOver(AssetCatalog, MaxAssetEvents),
       start \in {NoneFrac, Fraction(1, 2)} :
        InitWith([use_pod_presenter |-> TRUE,
                  elements |-> elements \o <<VoiceEvent(RawBase + 1500)>>],
                 Fraction(2, 1), start, NoneFrac, DEFAULT_PRESENTATION_POD)

\* Scenarios of redrawing: recording is on, presentation A is shared, u1
\* has joined and the cursor of u1 is shown, all at 0 s.  At 1 s or 2 s
\* recording stops or starts, u1 joins again, the cursor moves, u1 draws a
\* rectangle or the slide changes.  One frame per second from pts 0, or
\* from start_time 1.
StaleOpening ==
    <<RecordStatusEvent(RawBase, "true"),
      SharePresentationEvent(RawBase, Absent, "A"),
      ParticipantJoinEvent(RawBase, "u1"),
      WhiteboardCursorMoveEvent(RawBase, "u1", 1)>>

StaleCatalog ==
    UNION {{RecordStatusEvent(t, "false"),
            RecordStatusEvent(t, "true"),
            ParticipantJoinEvent(t, "u1"),
            WhiteboardCursorMoveEvent(t, "u1", 2),
            AddShapeEvent(t, "r1", "A", 0, "rectangle", "DRAW_END", "u1", <<10, 50>>),
            GotoSlideEvent(t, Absent, 1)}
           : t \in {RawBase + 1000, RawBase + 2000}}

InitStale ==
    \E elements \in DocsOver(StaleCatalog, MaxStaleEvents),
       start \in {NoneFrac, Fraction(1, 1)} :
        InitWith([use_pod_presenter |-> TRUE,
                  elements |-> StaleOpening \o elements
                               \o <<VoiceEvent(RawBase + 2500)>>],
                 Fraction(1, 1), start, NoneFrac, DEFAULT_PRESENTATION_POD)

(***************************************************************************)
(* The main thread.                                                        *)
(***************************************************************************)
\* main: exit(1) when the recording length is unknown, otherwise render():
\* the Encoder constructor starts the worker thread.
Main ==
    /\ pc = "main"
    /\ IF length = NoneFrac
       THEN /\ pc' = "exited"
            /\ exit_code' = 1
            /\ UNCHANGED workerPc
       ELSE /\ pc' = "loop"
            /\ workerPc' = "get"
            /\ UNCHANGED exit_code
    /\ UNCHANGED <<shapeVars, surfaceVars, xml, rendererVars, layerVars, queue, ret_queue, bufData,
                   putBuf, workerBuf, written, stdin_closed, returncode, logVars>>

\* Variant: the loop also runs for pts = length.
LoopCondition_inclusive == FracLe(pts, length)

\* while self.pts < self.length
LoopCondition == FracLt(pts, length)

LoopTest ==
    /\ pc = "loop"
    /\ pc' = IF LoopCondition THEN "drain" ELSE "join"
    /\ UNCHANGED <<shapeVars, surfaceVars, xml, rendererVars, layerVars, encoderVars, exit_code, logVars>>

PerPodNames == {"pan_zoom", "presentation", "slide", "presenter"}

\* Variant: presenter events are not filtered by pod.
ForeignPod_noPresenter(event) ==
    event.name \in {"pan_zoom", "presentation", "slide"} /\ event.pod_id # pod_id

ForeignPod(event) == event.name \in PerPodNames /\ event.pod_id # pod_id

HeadIsDue == events # <<>> /\ FracLe(Head(events).timestamp, pts)

update_record(event) == event.status

\* The layers after the handlers of render's if/elif chain ran for event
Dispatched(event) ==
    LET name == event.name
    IN  [tldraw |-> TldrawRenderer_update(tldraw, event),
         presentation |->
            CASE name = "pan_zoom" ->
                    PresentationRenderer_update_pan_zoom(presentation, event)
              [] name = "presentation" ->
                    PresentationRenderer_update_presentation(presentation, event)
              [] name = "slide" ->
                    PresentationRenderer_update_slide(presentation, event)
              [] OTHER -> presentation,
         shapes |->
            CASE name = "presentation" ->
                    ShapesRenderer_update_presentation(shapes, event)
              [] name = "slide" -> ShapesRenderer_update_slide(shapes, event)
              [] name = "shape" -> ShapesRenderer_update_shape(shapes, event)
              [] name = "undo" -> ShapesRenderer_update_undo(shapes, event)
              [] name = "clear" -> ShapesRenderer_update_clear(shapes, event)
              [] OTHER -> shapes,
         cursor |->
            CASE name = "cursor" -> CursorRenderer_update_cursor(cursor, event)
              [] name = "cursor_v2" ->
                    CursorRenderer_update_cursor_v2(cursor, event)
              [] name = "presentation" ->
                    CursorRenderer_update_presentation(cursor, event)
              [] name = "slide" -> CursorRenderer_update_slide(cursor, event)
              [] name = "shape" -> CursorRenderer_update_shape(cursor, event)
              [] name = "presenter" ->
                    CursorRenderer_update_presenter(cursor, event)
              [] name = "join" -> CursorRenderer_update_join(cursor, event)
              [] name = "left" -> CursorRenderer_update_left(cursor, event)
              [] OTHER -> cursor]

\* One iteration of the inner while loop that takes an event.  An
\* exception of tldraw.update or of cursor.update_shape (which runs after
\* shapes.update_shape) is caught nowhere: it ends render and main, and the
\* program (the encoder thread is a daemon) with status 1.
DispatchEvent ==
    /\ pc = "drain"
    /\ HeadIsDue
    /\ LET event == Head(events)
           after == Dispatched(event)
       IN  /\ events' = Tail(events)
           /\ IF ForeignPod(event)
              THEN /\ skipped' = Append(skipped, event)
                   /\ UNCHANGED <<layerVars, recording, dispatched, viewed, pc,
                                  exit_code>>
              ELSE IF TldrawRenderer_update_raises(event)
              THEN /\ dispatched' = Append(dispatched, event)
                   /\ pc' = "exited"
                   /\ exit_code' = 1
                   /\ UNCHANGED <<layerVars, recording, skipped, viewed>>
              ELSE IF event.name = "shape"
                      /\ CursorRenderer_update_shape_raises(cursor, event)
              THEN /\ dispatched' = Append(dispatched, event)
                   /\ tldraw' = after.tldraw
                   /\ shapes' = after.shapes
                   /\ pc' = "exited"
                   /\ exit_code' = 1
                   /\ UNCHANGED <<presentation, cursor, recording, skipped, viewed>>
              ELSE /\ skipped' = skipped
                   /\ dispatched' = Append(dispatched, event)
                   /\ tldraw' = after.tldraw
                   /\ presentation' = after.presentation
                   /\ shapes' = after.shapes
                   /\ cursor' = after.cursor
                   /\ recording' = IF event.name = "record" THEN update_record(event)
                                   ELSE recording
                   /\ viewed' = IF after.presentation.presentation = None THEN viewed
                                ELSE DictPut(viewed, after.presentation.presentation,
                                             after.presentation.slide)
                   /\ UNCHANGED <<pc, exit_code>>
    /\ UNCHANGED <<shapeVars, surfaceVars, xml, length, framestep, pts, frame, start_time, pod_id, changed,
                   encoderVars, pushed>>

\* Variant: start_time is not looked at.
ShouldEmit_noStart == recording

\* if self.recording and self.pts >= self.start_time
ShouldEmit == recording /\ FracLe(start_time, pts)

\* The inner loop breaks and `if self.recording and self.pts >= self.start_time`
\* holds: the layers are finalized and the frame goes to Encoder.put.
FrameEmit ==
    /\ pc = "drain"
    /\ ~HeadIsDue
    /\ ShouldEmit
    /\ LET p == PresentationRenderer_finalize_frame(presentation, frame)
           s == ShapesRenderer_finalize_frame(shapes, p.self.trans, frame)
           t == TldrawRenderer_finalize_frame(tldraw, p.self.trans, frame)
           c == CursorRenderer_finalize_frame(cursor, p.self.trans, frame)
       IN  /\ presentation' = p.self
           /\ shapes' = s.self
           /\ tldraw' = t.self
           /\ cursor' = c.self
           /\ changed' = [presentation |-> p.changed, shapes |-> s.changed,
                          tldraw |-> t.changed, cursor |-> c.changed]
           /\ LET patterns ==
                     [presentation |->
                         Repainted(presentation, p.self, drawn.presentation,
                                   PresentationRenderer_picture(p.self)),
                      shapes |->
                         Repainted(shapes, s.self, drawn.shapes,
                                   ShapesRenderer_picture(s.self, s.self.transform)),
                      tldraw |->
                         Repainted(tldraw, t.self, drawn.tldraw,
                                   TldrawRenderer_picture(t.self, t.self.transform)),
                      cursor |->
                         Repainted(cursor, c.self, drawn.cursor,
                                   CursorRenderer_picture(c.self, c.self.transform))]
              IN  /\ drawn' = patterns
                  /\ surface' = IF p.changed \/ s.changed \/ t.changed \/ c.changed
                                THEN patterns ELSE surface
    /\ pc' = "put_get"
    /\ UNCHANGED <<shapeVars, xml, events, length, framestep, pts, frame, recording,
                   start_time, pod_id, encoderVars, exit_code, logVars>>

\* The inner loop breaks and no frame is produced for this pts.
FrameSkip ==
    /\ pc = "drain"
    /\ ~HeadIsDue
    /\ ~ShouldEmit
    /\ pc' = "advance"
    /\ UNCHANGED <<shapeVars, surfaceVars, xml, rendererVars, layerVars, encoderVars, exit_code, logVars>>

\* Variant: the buffer is read from the return queue but left in it.
EncoderPutGet_peek ==
    /\ pc = "put_get"
    /\ ret_queue # <<>>
    /\ putBuf' = Head(ret_queue)
    /\ pc' = "put_copy"
    /\ UNCHANGED <<shapeVars, surfaceVars, xml, rendererVars, layerVars, queue, ret_queue, bufData,
                   workerPc, workerBuf, written, stdin_closed, returncode,
                   exit_code, logVars>>

\* Encoder.put: buf = self.ret_queue.get()   (blocks while it is empty)
EncoderPutGet ==
    /\ pc = "put_get"
    /\ ret_queue # <<>>
    /\ putBuf' = Head(ret_queue)
    /\ ret_queue' = Tail(ret_queue)
    /\ pc' = "put_copy"
    /\ UNCHANGED <<shapeVars, surfaceVars, xml, rendererVars, layerVars, queue, bufData, workerPc,
                   workerBuf, written, stdin_closed, returncode, exit_code, logVars>>

\* Variant: the buffer is queued without the frame being copied into it.
EncoderPutCopy_noCopy ==
    /\ pc = "put_copy"
    /\ queue' = Append(queue, putBuf)
    /\ pushed' = Append(pushed, [pts |-> pts, data |-> frame])
    /\ putBuf' = 0
    /\ pc' = "advance"
    /\ UNCHANGED <<shapeVars, surfaceVars, xml, rendererVars, layerVars, ret_queue, bufData, workerPc,
                   workerBuf, written, stdin_closed, returncode, exit_code,
                   dispatched, skipped, viewed>>

\* Encoder.put: buf[:] = data; self.queue.put(buf).  The data of a frame is
\* identified by the frame counter.
EncoderPutCopy ==
    /\ pc = "put_copy"
    /\ bufData' = [bufData EXCEPT ![putBuf] = frame]
    /\ queue' = Append(queue, putBuf)
    /\ pushed' = Append(pushed, [pts |-> pts, data |-> frame])
    /\ putBuf' = 0
    /\ pc' = "advance"
    /\ UNCHANGED <<shapeVars, surfaceVars, xml, rendererVars, layerVars, ret_queue, workerPc, workerBuf,
                   written, stdin_closed, returncode, exit_code, dispatched,
                   skipped, viewed>>

\* self.frame += 1; self.pts += self.framestep
Advance ==
    /\ pc = "advance"
    /\ frame' = frame + 1
    /\ pts' = FracAdd(pts, framestep)
    /\ changed' = [changed EXCEPT !.presentation = FALSE, !.shapes = FALSE,
                                  !.cursor = FALSE]
    /\ pc' = "loop"
    /\ UNCHANGED <<shapeVars, surfaceVars, xml, events, length, framestep, recording, start_time, pod_id,
                   layerVars, encoderVars, exit_code, logVars>>

\* Encoder.join: self.queue.put(None)
EncoderJoinPut ==
    /\ pc = "join"
    /\ queue' = Append(queue, Sentinel)
    /\ pc' = "join_wait"
    /\ UNCHANGED <<shapeVars, surfaceVars, xml, rendererVars, layerVars, ret_queue, bufData, putBuf,
                   workerPc, workerBuf, written, stdin_closed, returncode,
                   exit_code, logVars>>

\* Encoder.join: self.thread.join() returns once the thread has ended, by
\* returning or by an exception; render and main then return.
EncoderJoinWait ==
    /\ pc = "join_wait"
    /\ workerPc \in {"done", "raised"}
    /\ pc' = "exited"
    /\ exit_code' = 0
    /\ UNCHANGED <<shapeVars, surfaceVars, xml, rendererVars, layerVars, encoderVars, logVars>>

(***************************************************************************)
(* The encoder thread (Encoder.run).                                       *)
(***************************************************************************)
\* buf = self.queue.get(); if buf is None: break
WorkerGet ==
    /\ workerPc = "get"
    /\ queue # <<>>
    /\ workerBuf' = Head(queue)
    /\ queue' = Tail(queue)
    /\ workerPc' = IF Head(queue) = Sentinel THEN "close" ELSE "write"
    /\ UNCHANGED <<shapeVars, surfaceVars, xml, rendererVars, pc, layerVars, ret_queue, bufData, putBuf,
                   written, stdin_closed, returncode, exit_code, logVars>>

\* ffmpeg.stdin.write(buf) succeeds
WorkerWrite ==
    /\ workerPc = "write"
    /\ written' = Append(written, bufData[workerBuf])
    /\ workerPc' = "return"
    /\ UNCHANGED <<shapeVars, surfaceVars, xml, rendererVars, pc, layerVars, queue, ret_queue, bufData,
                   putBuf, workerBuf, stdin_closed, returncode, exit_code, logVars>>

\* ffmpeg.stdin.write(buf) raises (the encoder process has gone away): the
\* exception is not caught in run and ends the thread.
WorkerWriteFails ==
    /\ workerPc = "write"
    /\ workerPc' = "raised"
    /\ UNCHANGED <<shapeVars, surfaceVars, xml, rendererVars, pc, layerVars, queue, ret_queue, bufData,
                   putBuf, workerBuf, written, stdin_closed, returncode,
                   exit_code, logVars>>

\* self.ret_queue.put(buf)
WorkerReturn ==
    /\ workerPc = "return"
    /\ ret_queue' = Append(ret_queue, workerBuf)
    /\ workerPc' = "get"
    /\ UNCHANGED <<shapeVars, surfaceVars, xml, rendererVars, pc, layerVars, queue, bufData, putBuf,
                   workerBuf, written, stdin_closed, returncode, exit_code, logVars>>

\* ffmpeg.stdin.close(); ffmpeg.wait(); a non-zero return code raises
\* CalledProcessError in the thread.
WorkerFinish ==
    /\ workerPc = "close"
    /\ stdin_closed' = TRUE
    /\ \E rc \in {0, 1} :
        /\ returncode' = rc
        /\ workerPc' = IF rc # 0 THEN "raised" ELSE "done"
    /\ UNCHANGED <<shapeVars, surfaceVars, xml, rendererVars, pc, layerVars, queue, ret_queue, bufData,
                   putBuf, workerBuf, written, exit_code, logVars>>

Next ==
    \/ Main
    \/ LoopTest
    \/ DispatchEvent
    \/ FrameEmit
    \/ FrameSkip
    \/ EncoderPutGet
    \/ EncoderPutCopy
    \/ Advance
    \/ EncoderJoinPut
    \/ EncoderJoinWait
    \/ WorkerGet
    \/ WorkerWrite
    \/ WorkerWriteFails
    \/ WorkerReturn
    \/ WorkerFinish

Spec == Init /\ [][Next]_vars

SpecClock == InitClock /\ [][Next]_vars

SpecPod == InitPod /\ [][Next]_vars

SpecTldraw == InitTldraw /\ [][Next]_vars

SpecShapes == InitShapes /\ [][Next]_vars

SpecBoard == InitBoard /\ [][Next]_vars

SpecPres == InitPres /\ [][Next]_vars

SpecCursor == InitCursor /\ [][Next]_vars

SpecParse == InitParse /\ [][Next]_vars

SpecAssets == InitAssets /\ [][Next]_vars

SpecStale == InitStale /\ [][Next]_vars

(***************************************************************************)
(* Shape documents and the two steps that apply them: Shape.from_data      *)
(* through parse_shape_from_data, then update_from_data on the object.     *)
(***************************************************************************)
\* the documents without the key and those that give it one of the values
Keyed(key, values) == {EmptyDict} \cup {key :> v : v \in values}

V1Common ==
    {p @@ s @@ r : p \in Keyed("point", {<<10, 20>>}),
                   s \in Keyed("size", {<<30, 40>>}),
                   r \in Keyed("rotation", {1})}
DecorationsData ==
    {a @@ b : a \in Keyed("start", {"arrow", None}),
              b \in Keyed("end", {"arrow", "dot"})}
V1Documents ==
    {("type" :> "rectangle") @@ c @@ l :
        c \in V1Common, l \in Keyed("label", {"", "a"})}
    \cup {("type" :> t) @@ c @@ x :
            t \in {"text", "sticky"}, c \in V1Common, x \in Keyed("text", {"a"})}
    \cup {("type" :> "arrow") @@ p @@ l @@ dec :
            p \in Keyed("point", {<<10, 20>>}), l \in Keyed("label", {"", "a"}),
            dec \in Keyed("decorations", DecorationsData)}
    \cup {("type" :> "group") @@ p : p \in Keyed("point", {<<10, 20>>})}

V2Origin == {EmptyDict, [x |-> 10, y |-> 20]}
V2Size == {EmptyDict, [w |-> 30, h |-> 40]}
GeoProps ==
    {g @@ wh @@ gy @@ t @@ n :
        g \in Keyed("geo", {"rectangle"}), wh \in V2Size,
        gy \in Keyed("growY", {0, 5}), t \in Keyed("text", {"a"}),
        n \in Keyed("name", {"n"})}
NoteProps ==
    {wh @@ gy @@ t @@ va :
        wh \in V2Size, gy \in Keyed("growY", {0, 5}), t \in Keyed("text", {"a"}),
        va \in Keyed("verticalAlign", {"end"})}
ArrowProps ==
    {a @@ b : a \in Keyed("arrowheadStart", {"none", "arrow"}),
              b \in Keyed("arrowheadEnd", {"arrow", None})}
TextProps == Keyed("text", {"a"})
V2Documents ==
    {("type" :> "geo") @@ o @@ props :
        o \in V2Origin, props \in Keyed("props", GeoProps)}
    \cup {("type" :> "note") @@ o @@ props :
            o \in V2Origin, props \in Keyed("props", NoteProps)}
    \cup {("type" :> "arrow") @@ o @@ props :
            o \in V2Origin, props \in Keyed("props", ArrowProps)}
    \cup {("type" :> "text") @@ o @@ props :
            o \in V2Origin, props \in Keyed("props", TextProps)}

ShapeDocuments == V1Documents \cup V2Documents \cup {"type" :> "image"}

\* parse_shape_from_data(data, bbb_version) for a shape id not seen before
ShapeFromData ==
    /\ shapePc = "new"
    /\ \E d \in ShapeDocuments, is_tldraw_v2 \in BOOLEAN :
        /\ shapeObj' = parse_shape_from_data(d, is_tldraw_v2).self
        /\ shapeData' = d
    /\ shapePc' = IF shapeObj' = NoShape THEN "raised" ELSE "built"
    /\ UNCHANGED <<updates, xml, rendererVars, pc, layerVars, encoderVars,
                   exit_code, logVars, surfaceVars>>

\* the object as the call left it, and whether the call raised
UpdateOutcome(r) ==
    /\ shapeObj' = r.self
    /\ shapePc' = IF r.raised THEN "raised" ELSE "built"

\* shape.update_from_data(data) with a later document of the same type
ShapeUpdateFromData ==
    /\ shapePc = "built"
    /\ updates < MaxUpdates
    /\ \E d \in ShapeDocuments :
        /\ d.type = shapeData.type
        /\ UpdateOutcome(Shape_update_from_data(shapeObj, d))
        /\ shapeData' = d
    /\ updates' = updates + 1
    /\ UNCHANGED <<xml, rendererVars, pc, layerVars, encoderVars, exit_code,
                   logVars, surfaceVars>>

InitShapeData ==
    InitWith([use_pod_presenter |-> TRUE, elements |-> <<>>],
             Fraction(2, 1), NoneFrac, NoneFrac, DEFAULT_PRESENTATION_POD)

NextShapeData ==
    \/ ShapeFromData
    \/ ShapeUpdateFromData

SpecShapeData == InitShapeData /\ [][NextShapeData]_vars

(***************************************************************************)
(* Properties.                                                             *)
(***************************************************************************)
Last(q) == q[Len(q)]
Data(q) == [i \in 1..Len(q) |-> q[i].data]
IsPrefix(p, q) == Len(p) <= Len(q) /\ \A i \in 1..Len(p) : p[i] = q[i]
Buffers(q) == SelectSeq(q, LAMBDA b : b # Sentinel)
Drained == events = <<>> \/ FracLt(pts, Head(events).timestamp)
RenderLoopOver == pc \in {"join", "join_wait", "exited"} /\ length # NoneFrac

\* C1: the events are handed to the layers in timestamp order; events with
\* the same timestamp are handed over in document order, the made-up record
\* event (element 0) before the events of the document.
DispatchInTimestampOrder ==
    \A i \in 1..Len(dispatched) : \A j \in 1..Len(dispatched) :
        i < j =>
            /\ FracLe(dispatched[i].timestamp, dispatched[j].timestamp)
            /\ dispatched[i].timestamp = dispatched[j].timestamp
                  => dispatched[i].element < dispatched[j].element

\* The made-up record event, a document event of the same timestamp and a
\* later event have been dispatched.
DispatchInTimestampOrder_witness ==
    /\ Len(dispatched) >= 3
    /\ dispatched[1].element = 0
    /\ dispatched[2].timestamp = dispatched[1].timestamp
    /\ FracLt(dispatched[2].timestamp, dispatched[3].timestamp)

\* C2: in every iteration of the loop a frame is pushed if and only if,
\* after the events with timestamp <= pts were drained, recording is true
\* and pts >= start_time.
FramePushedIffRecordingInWindow ==
    /\ pc \in {"put_get", "put_copy"} =>
            Drained /\ recording /\ FracLe(start_time, pts)
    /\ pc = "advance" =>
        /\ Drained
        /\ (pushed # <<>> /\ Last(pushed).pts = pts)
              <=> (recording /\ FracLe(start_time, pts))
    /\ \A k \in 1..Len(pushed) : FracLe(start_time, pushed[k].pts)

\* An iteration has pushed a frame after an earlier iteration pushed none.
FramePushedIffRecordingInWindow_witness ==
    /\ pc = "advance"
    /\ pushed # <<>>
    /\ Last(pushed).pts = pts
    /\ Len(pushed) < frame

\* C3: frames are pushed in strictly increasing pts order; what the worker
\* has written to the encoder is, in order and without gaps or repeats, the
\* beginning of what was pushed, and all of it once the worker has taken the
\* sentinel and closed the encoder input.
FramesWrittenInPushOrder ==
    /\ \A i \in 1..(Len(pushed) - 1) : FracLt(pushed[i].pts, pushed[i + 1].pts)
    /\ \A i \in 1..(Len(pushed) - 1) : pushed[i].data < pushed[i + 1].data
    /\ IsPrefix(written, Data(pushed))
    /\ stdin_closed => written = Data(pushed)

\* Four frames went through the three buffers and the input was closed.
FramesWrittenInPushOrder_witness ==
    /\ stdin_closed
    /\ Len(written) >= 4

HeldByProducer == IF putBuf # 0 THEN {putBuf} ELSE {}
HeldByWorker ==
    IF workerPc \in {"write", "return"} \/ (workerPc = "raised" /\ workerBuf # Sentinel)
    THEN {workerBuf} ELSE {}
InQueue(q) == {q[i] : i \in 1..Len(q)} \ {Sentinel}

\* C4: the buffers in the return queue, in the input queue, held by the
\* producer and held by the worker are always exactly three, each of the
\* three in one place; so at most three frames are queued or being written.
ThreeBuffersCirculate ==
    /\ Len(ret_queue) + Len(Buffers(queue)) + Cardinality(HeldByProducer)
          + Cardinality(HeldByWorker) = 3
    /\ InQueue(ret_queue) \cup InQueue(queue) \cup HeldByProducer \cup HeldByWorker
          = {1, 2, 3}
    /\ Len(Buffers(queue)) + Cardinality(HeldByWorker) <= 3

\* All three buffers wait in the input queue and the producer is blocked.
ThreeBuffersCirculate_witness ==
    /\ Len(Buffers(queue)) = 3
    /\ pc = "put_get"

\* C5: when the encoder process ended with a non-zero status, the program
\* does not end with exit code 0.
EncoderFailureIsFatal ==
    (pc = "exited" /\ returncode > 0) => exit_code = 1

\* C6: the main thread is never blocked in put or join with nothing left
\* that could wake it up: it waits in put only while the worker is alive.
SchedulerNeverBlockedForever ==
    ~(pc = "put_get" /\ ret_queue = <<>> /\ workerPc = "raised")

\* C7: join returns only after the worker has written every frame that was
\* queued before the sentinel, closed the encoder input, waited for the
\* encoder process and ended.
JoinReturnsAfterSentinelShutdown ==
    (pc = "exited" /\ exit_code = 0) =>
        /\ written = Data(pushed)
        /\ stdin_closed
        /\ returncode # -1
        /\ workerPc \in {"done", "raised"}

\* C8: pts is exactly (frame - 1) * framestep, frame being 1 in the first
\* iteration.
PtsIsFrameTimesFramestep ==
    /\ pts = FracMulInt(frame - 1, framestep)
    /\ pts.n * framestep.d = (frame - 1) * framestep.n * pts.d

\* The third frame of a frame rate whose step is not a decimal fraction.
PtsIsFrameTimesFramestep_witness ==
    /\ frame >= 3
    /\ framestep = Fraction(2, 3)

\* C9, as stated: the number of frames pushed is
\* ceil((length - start_time) / framestep).
FrameCountIsCeiling ==
    RenderLoopOver =>
        Len(pushed) = CeilDiv(FracSub(length, start_time), framestep)

\* recording after the events with timestamp <= t were drained: the status
\* of the last record event of the parsed sequence that is due at t.
RecordEventsDue(evs, t) ==
    {k \in 1..Len(evs) : evs[k].name = "record" /\ FracLe(evs[k].timestamp, t)}
SetMax(S) == CHOOSE x \in S : \A y \in S : y <= x
RecordingAt(evs, t) ==
    LET due == RecordEventsDue(evs, t)
    IN  due # {} /\ evs[SetMax(due)].status
TickCount == IF FracLt(FracZero, length) THEN CeilDiv(length, framestep) ELSE 0
Tick(i) == FracMulInt(i, framestep)
ParsedEvents == parse_events(xml).events
NonNegative(n) == IF n < 0 THEN 0 ELSE n

\* C9, amended: the number of frames pushed is the number of frame times
\* i * framestep in [start_time, length) at which recording is on; when
\* recording is on at every frame time this is
\* max(0, ceil(length / framestep) - ceil(start_time / framestep)).
FrameCountIsRecordedTicks ==
    RenderLoopOver =>
        /\ Len(pushed) =
              Cardinality({i \in 0..(TickCount - 1) :
                              /\ FracLe(start_time, Tick(i))
                              /\ RecordingAt(ParsedEvents, Tick(i))})
        /\ (\A i \in 0..(TickCount - 1) : RecordingAt(ParsedEvents, Tick(i)))
              => Len(pushed) =
                    NonNegative(TickCount - CeilDiv(start_time, framestep))

\* A rendering is over that pushed frames and left some frame times out.
FrameCountIsRecordedTicks_witness ==
    /\ RenderLoopOver
    /\ Len(pushed) >= 2
    /\ Len(pushed) < TickCount

\* C10: taking a pan_zoom, presentation, slide or presenter event of another
\* pod from the queue changes nothing in the four layers.
ForeignPodEventChangesNoLayer ==
    [][(/\ pc = "drain"
        /\ events # <<>>
        /\ events' = Tail(events)
        /\ Head(events).name \in {"pan_zoom", "presentation", "slide", "presenter"}
        /\ Head(events).pod_id # pod_id)
       => UNCHANGED <<presentation, shapes, tldraw, cursor>>]_vars

\* An event of another pod was skipped that names a presentation, a slide
\* or a presenter other than the current one.
ForeignPodEventChangesNoLayer_witness ==
    \E i \in 1..Len(skipped) :
        \/ skipped[i].name = "presentation"
              /\ skipped[i].presentation # presentation.presentation
        \/ skipped[i].name = "slide" /\ skipped[i].slide # presentation.slide
        \/ skipped[i].name = "presenter" /\ skipped[i].user_id # cursor.presenter

\* C11: whenever a finalize_frame call of the presentation, legacy shapes,
\* tldraw or cursor layer changes the layer's cached pattern (builds a new
\* one or clears it), the call returns true.
FinalizeReturnsTrueIfPatternChanged ==
    [][(pc = "drain" /\ pc' = "put_get") =>
            /\ presentation'.pattern # presentation.pattern => changed'.presentation
            /\ shapes'.pattern # shapes.pattern => changed'.shapes
            /\ tldraw'.pattern # tldraw.pattern => changed'.tldraw
            /\ cursor'.pattern # cursor.pattern => changed'.cursor]_vars

\* A step of render that handed the event at the head of the queue to the
\* layers (and did not end in an exception).
Handled ==
    /\ pc = "drain" /\ pc' = "drain" /\ events # <<>>
    /\ dispatched' = Append(dispatched, Head(events))

PropSlots == {<<p, s>> : p \in {"A", "B"}, s \in 0..1}
PropIds == {"s1", "s2", "p1", "r1", "r2", "r3", "zz"}

TldrawIds(layer, slot) ==
    IF slot \in DOMAIN layer.shapes
    THEN {layer.shapes[slot][i].id : i \in 1..Len(layer.shapes[slot])} ELSE {}
LegacyIds(layer, slot) ==
    IF slot \in DOMAIN layer.shapes
    THEN {layer.shapes[slot][i].shape_id : i \in 1..Len(layer.shapes[slot])} \ {None}
    ELSE {}
Addresses(e, slot) == e.presentation = slot[1] /\ e.slide = slot[2]

\* C12, as stated: an id is in shapes[p][s] exactly when an add for (p, s, id)
\* was dispatched and no later delete, undo or clear removed it.  Step by
\* step: an add for (p, s, id) makes the id present, an id becomes present
\* only by such an add, a delete or undo of the id and a full clear make it
\* absent, and an id becomes absent only by a delete, undo or clear on its
\* slot.
ShapePresentIffAddedAndNotRemoved ==
    [][Handled =>
        LET e == Head(events)
        IN  \A slot \in PropSlots : \A id \in PropIds :
            /\ (e.name = "tldraw.add_shape" /\ Addresses(e, slot) /\ e.shape_id = id)
                    => id \in TldrawIds(tldraw', slot)
            /\ (e.name = "shape" /\ Addresses(e, slot) /\ e.shape_id = id)
                    => id \in LegacyIds(shapes', slot)
            /\ (id \in TldrawIds(tldraw', slot) \ TldrawIds(tldraw, slot))
                    => (e.name = "tldraw.add_shape" /\ Addresses(e, slot)
                        /\ e.shape_id = id)
            /\ (id \in LegacyIds(shapes', slot) \ LegacyIds(shapes, slot))
                    => (e.name = "shape" /\ Addresses(e, slot) /\ e.shape_id = id)
            /\ (e.name = "tldraw.delete_shape" /\ Addresses(e, slot) /\ e.shape_id = id)
                    => id \notin TldrawIds(tldraw', slot)
            /\ (e.name = "undo" /\ Addresses(e, slot) /\ e.shape_id = id)
                    => id \notin LegacyIds(shapes', slot)
            /\ (e.name = "clear" /\ Addresses(e, slot) /\ e.full_clear # "false")
                    => id \notin LegacyIds(shapes', slot)
            /\ (id \in TldrawIds(tldraw, slot) \ TldrawIds(tldraw', slot))
                    => (e.name = "tldraw.delete_shape" /\ Addresses(e, slot)
                        /\ e.shape_id = id)
            /\ (id \in LegacyIds(shapes, slot) \ LegacyIds(shapes', slot))
                    => (e.name \in {"undo", "clear"} /\ Addresses(e, slot))]_vars

\* C12, amended: the same, where an add of an image is not an add, and a
\* legacy id also becomes absent when a shape event without id replaces
\* the newest entry of its slot.
ShapePresentIffStoredAndNotRemoved ==
    [][Handled =>
        LET e == Head(events)
        IN  \A slot \in PropSlots : \A id \in PropIds :
            /\ (e.name = "tldraw.add_shape" /\ Addresses(e, slot) /\ e.shape_id = id
                 /\ e.data.type # "image")
                    => id \in TldrawIds(tldraw', slot)
            /\ (e.name = "shape" /\ Addresses(e, slot) /\ e.shape_id = id)
                    => id \in LegacyIds(shapes', slot)
            /\ (id \in TldrawIds(tldraw', slot) \ TldrawIds(tldraw, slot))
                    => (e.name = "tldraw.add_shape" /\ Addresses(e, slot)
                        /\ e.shape_id = id /\ e.data.type # "image")
            /\ (id \in LegacyIds(shapes', slot) \ LegacyIds(shapes, slot))
                    => (e.name = "shape" /\ Addresses(e, slot) /\ e.shape_id = id)
            /\ (e.name = "tldraw.delete_shape" /\ Addresses(e, slot) /\ e.shape_id = id)
                    => id \notin TldrawIds(tldraw', slot)
            /\ (e.name = "undo" /\ Addresses(e, slot) /\ e.shape_id = id)
                    => id \notin LegacyIds(shapes', slot)
            /\ (e.name = "clear" /\ Addresses(e, slot) /\ e.full_clear # "false")
                    => id \notin LegacyIds(shapes', slot)
            /\ (id \in TldrawIds(tldraw, slot) \ TldrawIds(tldraw', slot))
                    => (e.name = "tldraw.delete_shape" /\ Addresses(e, slot)
                        /\ e.shape_id = id)
            /\ (id \in LegacyIds(shapes, slot) \ LegacyIds(shapes', slot))
                    => \/ e.name \in {"undo", "clear"} /\ Addresses(e, slot)
                       \/ /\ e.name = "shape" /\ Addresses(e, slot)
                          /\ e.shape_id = None
                          /\ shapes.shapes[slot][Len(shapes.shapes[slot])].shape_id = id
                          /\ shapes.shapes[slot][Len(shapes.shapes[slot])].shape_type
                                = e.shape_type
                          /\ shapes.shapes[slot][Len(shapes.shapes[slot])].points[1]
                                = e.points[1]]_vars

\* A shape was added and deleted again and is gone, while another shape
\* of the slot is still there.
ShapePresentIffStoredAndNotRemoved_witness ==
    /\ \E i \in 1..Len(dispatched) : \E j \in 1..Len(dispatched) :
            /\ i < j
            /\ dispatched[i].name = "tldraw.add_shape"
            /\ dispatched[i].shape_id = "s1"
            /\ dispatched[j].name = "tldraw.delete_shape"
            /\ dispatched[j].shape_id = "s1"
    /\ "s1" \notin TldrawIds(tldraw, <<"A", 0>>)
    /\ <<"A", 0>> \in DOMAIN tldraw.shapes

\* C13: after every add or delete, also an add for an existing id with a
\* different childIndex, the tldraw shapes of every slot are iterated in
\* non-decreasing childIndex order.
SlotsSortedByChildIndex ==
    \A slot \in DOMAIN tldraw.shapes :
        \A i \in 1..Len(tldraw.shapes[slot]) : \A j \in 1..Len(tldraw.shapes[slot]) :
            i < j => shape_sort_key(tldraw.shapes[slot][i].shape)
                        <= shape_sort_key(tldraw.shapes[slot][j].shape)

\* s1 was added in front of s2 and then added again with a greater
\* childIndex: the slot holds both, s1 now behind s2.
SlotsSortedByChildIndex_witness ==
    /\ \E i \in 1..Len(dispatched) : \E j \in 1..Len(dispatched) :
            /\ i < j
            /\ dispatched[i].name = "tldraw.add_shape"
            /\ dispatched[j].name = "tldraw.add_shape"
            /\ dispatched[i].shape_id = "s1" /\ dispatched[j].shape_id = "s1"
            /\ dispatched[i].slide = 0 /\ dispatched[j].slide = 0
            /\ dispatched[i].data.childIndex = 1
            /\ dispatched[j].data.childIndex = 2
    /\ <<"A", 0>> \in DOMAIN tldraw.shapes
    /\ Len(tldraw.shapes[<<"A", 0>>]) = 2
    /\ tldraw.shapes[<<"A", 0>>][1].id = "s2"
    /\ tldraw.shapes[<<"A", 0>>][2].id = "s1"
    /\ tldraw.shapes[<<"A", 0>>][1].shape.childIndex = 1
    /\ tldraw.shapes[<<"A", 0>>][2].shape.childIndex = 2

TldrawShape(layer, slot, id) ==
    LET i == CHOOSE k \in 1..Len(layer.shapes[slot]) : layer.shapes[slot][k].id = id
    IN  layer.shapes[slot][i].shape

\* C14: an add_shape event for an id that its slot already holds updates
\* the stored shape from the event data: an attribute the data lacks
\* (isFilled) keeps the value the stored shape had.
AddForExistingIdKeepsAbsentFields ==
    [][Handled =>
        LET e == Head(events)
            slot == <<e.presentation, e.slide>>
        IN  (/\ e.name = "tldraw.add_shape"
             /\ e.data.type # "image"
             /\ e.shape_id \in TldrawIds(tldraw, slot)
             /\ e.data.isFilled = Absent)
            => /\ e.shape_id \in TldrawIds(tldraw', slot)
               /\ TldrawShape(tldraw', slot, e.shape_id).isFilled
                    = TldrawShape(tldraw, slot, e.shape_id).isFilled]_vars

\* The last three events handed to the layers were the three stages of
\* pencil p1 on page 0 of presentation A, with points [10, 20], [30] and
\* [30, 40].
PencilStagesDispatched ==
    LET n == Len(dispatched)
    IN  /\ n >= 3
        /\ \A k \in 0..2 :
                /\ dispatched[n - k].name = "shape"
                /\ dispatched[n - k].shape_id = "p1"
                /\ dispatched[n - k].shape_type = "pencil"
                /\ Addresses(dispatched[n - k], <<"A", 0>>)
        /\ dispatched[n - 2].shape_status = "DRAW_START"
        /\ dispatched[n - 2].points = <<10, 20>>
        /\ dispatched[n - 1].shape_status = "DRAW_UPDATE"
        /\ dispatched[n - 1].points = <<30>>
        /\ dispatched[n].shape_status = "DRAW_END"
        /\ dispatched[n].points = <<30, 40>>

StoredWithId(slot, id) ==
    IF slot \in DOMAIN shapes.shapes
    THEN {i \in 1..Len(shapes.shapes[slot]) : shapes.shapes[slot][i].shape_id = id}
    ELSE {}

\* C15, as stated: after DRAW_START [10, 20], DRAW_UPDATE [30] and DRAW_END
\* [30, 40] of one pencil, one shape is stored, with the points
\* [10, 20, 30, 30, 40].
PencilStagesConcatenated ==
    PencilStagesDispatched =>
        /\ Cardinality(StoredWithId(<<"A", 0>>, "p1")) = 1
        /\ \A i \in StoredWithId(<<"A", 0>>, "p1") :
                shapes.shapes[<<"A", 0>>][i].points = <<10, 20, 30, 30, 40>>

\* C15, amended: one shape is stored, with the points of the DRAW_END
\* event, [30, 40].
PencilStagesEndReplaces ==
    PencilStagesDispatched =>
        /\ Cardinality(StoredWithId(<<"A", 0>>, "p1")) = 1
        /\ \A i \in StoredWithId(<<"A", 0>>, "p1") :
                shapes.shapes[<<"A", 0>>][i].points = <<30, 40>>

PencilStagesEndReplaces_witness ==
    /\ PencilStagesDispatched
    /\ Len(shapes.shapes[<<"A", 0>>]) = 1
    /\ shapes.shapes[<<"A", 0>>][1].shape_status = "DRAW_END"

\* C16: a legacy shape event that carries no presentation or no page
\* number is stored in the slot of the layer's current presentation and
\* slide (unless it is a text DRAW_END without page number).
ShapeDefaultsToCurrentSlot ==
    [][Handled =>
        LET e == Head(events)
        IN  (/\ e.name = "shape"
             /\ e.shape_id # None
             /\ e.presentation = None \/ e.slide = NoneSlide
             /\ ~(e.shape_type = "text" /\ e.shape_status = "DRAW_END")
             /\ shapes.presentation # None)
            => e.shape_id \in LegacyIds(shapes', <<shapes.presentation, shapes.slide>>)]_vars

LegacySlot(layer, slot) ==
    IF slot \in DOMAIN layer.shapes THEN layer.shapes[slot] ELSE <<>>

NoTwoShareId(layer) ==
    \A slot \in DOMAIN layer.shapes :
        \A i \in 1..Len(layer.shapes[slot]) : \A j \in 1..Len(layer.shapes[slot]) :
            (i # j /\ layer.shapes[slot][i].shape_id # None)
                => layer.shapes[slot][i].shape_id # layer.shapes[slot][j].shape_id

\* The event replaces entry i of the slot; nothing else changes.
ReplacedAt(before, after, i, e) ==
    /\ Len(after) = Len(before)
    /\ after[i].shape_id = e.shape_id
    /\ after[i].shape_status = e.shape_status
    /\ \A k \in 1..Len(before) : k # i => after[k] = before[k]

\* C17, as stated: no two shapes of a slot share a non-null id; a shape
\* event for an id the slot holds replaces that entry where it stands and
\* leaves the others as they are, and any other shape event is appended.
ReplaceByIdElseAppend ==
    [][Handled =>
        LET e == Head(events)
            slot == <<e.presentation, e.slide>>
            before == LegacySlot(shapes, slot)
            after == LegacySlot(shapes', slot)
        IN  (e.name = "shape" /\ e.presentation # None /\ e.slide # NoneSlide)
            => /\ NoTwoShareId(shapes')
               /\ IF e.shape_id # None /\ StoredWithId(slot, e.shape_id) # {}
                  THEN \A i \in StoredWithId(slot, e.shape_id) :
                            ReplacedAt(before, after, i, e)
                  ELSE after = Append(before, e)]_vars

\* C17, amended: a shape event without id whose type and first point are
\* those of the newest entry of the slot replaces that entry; the rest as
\* stated.
ReplaceByIdOrNewestElseAppend ==
    [][Handled =>
        LET e == Head(events)
            slot == <<e.presentation, e.slide>>
            before == LegacySlot(shapes, slot)
            after == LegacySlot(shapes', slot)
        IN  (e.name = "shape" /\ e.presentation # None /\ e.slide # NoneSlide)
            => /\ NoTwoShareId(shapes')
               /\ IF e.shape_id # None /\ StoredWithId(slot, e.shape_id) # {}
                  THEN \A i \in StoredWithId(slot, e.shape_id) :
                            ReplacedAt(before, after, i, e)
                  ELSE IF /\ e.shape_id = None
                          /\ before # <<>>
                          /\ before[Len(before)].shape_type = e.shape_type
                          /\ before[Len(before)].points[1] = e.points[1]
                  THEN ReplacedAt(before, after, Len(before), e)
                  ELSE after = Append(before, e)]_vars

\* Pencil p1 was stored, rectangle r2 after it, and the DRAW_UPDATE of p1
\* replaced the first entry.
ReplaceByIdOrNewestElseAppend_witness ==
    /\ Len(LegacySlot(shapes, <<"A", 0>>)) = 2
    /\ shapes.shapes[<<"A", 0>>][1].shape_id = "p1"
    /\ shapes.shapes[<<"A", 0>>][1].shape_status = "DRAW_UPDATE"
    /\ shapes.shapes[<<"A", 0>>][1].points = <<10, 20, 30>>
    /\ shapes.shapes[<<"A", 0>>][2].shape_id = "r2"

WithoutId(deque, id) == SelectSeq(deque, LAMBDA x : x.shape_id # id)
WithoutNewest(deque) == IF deque = <<>> THEN <<>> ELSE SubSeq(deque, 1, Len(deque) - 1)

OtherSlotsUnchanged(slot) ==
    \A other \in PropSlots \ {slot} :
        LegacySlot(shapes', other) = LegacySlot(shapes, other)

\* C18, as stated: an undo removes the shape with the id of the event if
\* the slot holds one; otherwise (no id, or an id the slot does not hold)
\* it removes the newest shape of the slot.
UndoByIdElseNewest ==
    [][Handled =>
        LET e == Head(events)
            slot == <<e.presentation, e.slide>>
            before == LegacySlot(shapes, slot)
            after == LegacySlot(shapes', slot)
        IN  (e.name = "undo" /\ e.presentation # None /\ e.slide # NoneSlide)
            => /\ OtherSlotsUnchanged(slot)
               /\ after = IF e.shape_id # None /\ StoredWithId(slot, e.shape_id) # {}
                          THEN WithoutId(before, e.shape_id)
                          ELSE WithoutNewest(before)]_vars

\* C18, amended: an undo that carries a shape id removes the shape with
\* that id, and nothing if the slot holds none; an undo without shape id
\* removes the newest shape of the slot.
UndoByIdOrNewest ==
    [][Handled =>
        LET e == Head(events)
            slot == <<e.presentation, e.slide>>
            before == LegacySlot(shapes, slot)
            after == LegacySlot(shapes', slot)
        IN  (e.name = "undo" /\ e.presentation # None /\ e.slide # NoneSlide)
            => /\ OtherSlotsUnchanged(slot)
               /\ after = IF e.shape_id # None
                          THEN WithoutId(before, e.shape_id)
                          ELSE WithoutNewest(before)]_vars

\* An undo for id zz, which the slot does not hold, was dispatched and
\* the two shapes of the slot are still there.
UndoByIdOrNewest_witness ==
    /\ dispatched # <<>>
    /\ dispatched[Len(dispatched)].name = "undo"
    /\ dispatched[Len(dispatched)].shape_id = "zz"
    /\ Len(LegacySlot(shapes, <<"A", 0>>)) = 2

\* C19: a clear with full_clear false and user U removes from the slot it
\* addresses exactly the shapes of user U and keeps the others in their
\* order; a clear with full_clear true empties that slot; every other slot
\* stays as it was.
ClearRemovesUsersShapesOrAll ==
    [][Handled =>
        LET e == Head(events)
            slot == <<e.presentation, e.slide>>
            before == LegacySlot(shapes, slot)
            after == LegacySlot(shapes', slot)
        IN  (/\ e.name = "clear" /\ e.presentation # None /\ e.slide # NoneSlide
             /\ e.full_clear \in {"true", "false"})
            => /\ OtherSlotsUnchanged(slot)
               /\ e.full_clear = "true" => after = <<>>
               /\ e.full_clear = "false" =>
                    after = SelectSeq(before, LAMBDA x : x.user_id # e.user_id)]_vars

\* Pencil p1 of u1 and rectangle r2 of u2 were on page 0 when u1's shapes
\* were cleared: r2 alone is left there, and r3 of u1 is still on page 1.
ClearRemovesUsersShapesOrAll_witness ==
    /\ dispatched # <<>>
    /\ dispatched[Len(dispatched)].name = "clear"
    /\ dispatched[Len(dispatched)].full_clear = "false"
    /\ dispatched[Len(dispatched)].user_id = "u1"
    /\ \E i \in 1..Len(dispatched) :
            /\ dispatched[i].name = "shape"
            /\ dispatched[i].shape_id = "p1"
            /\ dispatched[i].user_id = "u1"
    /\ Len(LegacySlot(shapes, <<"A", 0>>)) = 1
    /\ shapes.shapes[<<"A", 0>>][1].shape_id = "r2"
    /\ shapes.shapes[<<"A", 0>>][1].user_id = "u2"
    /\ Len(LegacySlot(shapes, <<"A", 1>>)) = 1
    /\ shapes.shapes[<<"A", 1>>][1].user_id = "u1"

\* C20: a presentation event that names another presentation than the
\* current one resets pan and zoom and makes the slide last viewed in that
\* presentation the current slide (0 if it was never viewed); one that
\* names the current presentation changes nothing.
PresentationEventRestoresSlide ==
    [][Handled =>
        LET e == Head(events)
        IN  e.name = "presentation"
            => IF e.presentation # presentation.presentation
               THEN /\ presentation'.presentation = e.presentation
                    /\ presentation'.pan = 0
                    /\ presentation'.zoom = 1
                    /\ presentation'.slide = DictGet(viewed, e.presentation, 0)
               ELSE /\ presentation' = presentation
                    /\ shapes' = shapes
                    /\ tldraw' = tldraw
                    /\ cursor' = cursor]_vars

\* Presentation A was left on slide 1, B was shared, and A, shared again,
\* is back on slide 1 with neutral zoom.
PresentationEventRestoresSlide_witness ==
    /\ Len(dispatched) >= 4
    /\ dispatched[Len(dispatched)].name = "presentation"
    /\ dispatched[Len(dispatched)].presentation = "A"
    /\ dispatched[Len(dispatched) - 1].name = "presentation"
    /\ dispatched[Len(dispatched) - 1].presentation = "B"
    /\ presentation.presentation = "A"
    /\ presentation.slide = 1
    /\ presentation.zoom = 1

\* C21: when the current presentation or slide of the cursor layer
\* changes, every cursor it holds, the legacy cursor included, is hidden,
\* and a hidden cursor is shown again only by a cursor event for it.
SlideChangeHidesEveryCursor ==
    [][Handled =>
        LET e == Head(events)
        IN  /\ (cursor'.presentation # cursor.presentation
                \/ cursor'.slide # cursor.slide)
                => /\ \A u \in DOMAIN cursor'.cursors : cursor'.cursors[u] = 0
                   /\ cursor'.legacy_cursor = 0
            /\ \A u \in DOMAIN cursor.cursors :
                    (cursor.cursors[u] = 0 /\ u \in DOMAIN cursor'.cursors
                     /\ cursor'.cursors[u] # 0)
                        => (e.name = "cursor_v2" /\ e.user_id = u)
            /\ (cursor.legacy_cursor = 0 /\ cursor'.legacy_cursor # 0)
                    => e.name = "cursor"]_vars

\* The event is a shape drawn by the presenter on the current presentation
\* and slide of the cursor layer.
DrawnByPresenterHere(e) ==
    /\ e.name = "shape"
    /\ cursor.presenter # None
    /\ e.user_id = cursor.presenter
    /\ e.presentation = cursor.presentation
    /\ e.slide = cursor.slide

CursorShapeTypes == {"pencil", "rectangle", "ellipse", "triangle", "line"}

\* C22, as stated: a shape event drawn by the presenter on the current
\* presentation and slide moves the presenter's cursor to the last point of
\* the shape, unless its status is DRAW_END: then the cursors stay as they
\* are.
PresenterShapeMovesCursor ==
    [][Handled =>
        LET e == Head(events)
        IN  DrawnByPresenterHere(e)
            => IF e.shape_status = "DRAW_END"
               THEN cursor'.cursors = cursor.cursors
               ELSE /\ e.user_id \in DOMAIN cursor'.cursors
                    /\ cursor'.cursors[e.user_id] = e.points[Len(e.points)]]_vars

\* C22, amended: this holds for a pencil, rectangle, ellipse, triangle or
\* line with status DRAW_START or DRAW_UPDATE while the presenter's cursor
\* is shown; with status DRAW_END the cursors stay as they are.
PresenterShapeMovesShownCursor ==
    [][Handled =>
        LET e == Head(events)
        IN  DrawnByPresenterHere(e)
            => /\ e.shape_status = "DRAW_END" => cursor'.cursors = cursor.cursors
               /\ (/\ e.shape_status \in {"DRAW_START", "DRAW_UPDATE"}
                   /\ e.shape_type \in CursorShapeTypes
                   /\ DictGet(cursor.cursors, e.user_id, 0) # 0)
                    => /\ e.user_id \in DOMAIN cursor'.cursors
                       /\ cursor'.cursors[e.user_id] = e.points[Len(e.points)]]_vars

\* The presenter u1, whose cursor was shown at 1, drew the pencil update
\* [10, 20] and then the DRAW_END [30, 40]: the cursor is at 20.
PresenterShapeMovesShownCursor_witness ==
    /\ Len(dispatched) >= 3
    /\ dispatched[Len(dispatched) - 2].name = "cursor_v2"
    /\ dispatched[Len(dispatched) - 2].user_id = "u1"
    /\ dispatched[Len(dispatched) - 1].name = "shape"
    /\ dispatched[Len(dispatched) - 1].shape_status = "DRAW_UPDATE"
    /\ dispatched[Len(dispatched) - 1].user_id = "u1"
    /\ dispatched[Len(dispatched)].name = "shape"
    /\ dispatched[Len(dispatched)].shape_status = "DRAW_END"
    /\ dispatched[Len(dispatched)].user_id = "u1"
    /\ cursor.presenter = "u1"
    /\ cursor.cursors["u1"] = 20

\* The elements of the file that parse to an event, each parsed on its
\* own; the time stamp is left out of the comparison.
Untimed(e) == [e EXCEPT !.timestamp = FracZero]

RECURSIVE EventsOfElements(_, _, _)
EventsOfElements(elements, i, use_pod_presenter) ==
    IF i > Len(elements) THEN <<>>
    ELSE LET r == ParseElement(elements[i], FracZero, use_pod_presenter)
         IN  (IF r.kind = "event" THEN <<[r.event EXCEPT !.element = i]>> ELSE <<>>)
             \o EventsOfElements(elements, i + 1, use_pod_presenter)

ExpectedEvents(doc) ==
    LET parsed == EventsOfElements(doc.elements, 1, doc.use_pod_presenter)
    IN  IF \E i \in 1..Len(parsed) : parsed[i].name = "record" THEN parsed
        ELSE <<start_record>> \o parsed

\* C23: an element whose parsing fails is left out of the event sequence
\* and nothing else is: before the first event is handled, the sequence
\* holds exactly the events of the other elements, in file order (so a
\* shape update without points never reaches the stored shape).
ParseFailureSkipsOnlyThatEvent ==
    (dispatched = <<>> /\ skipped = <<>>)
        => [i \in 1..Len(events) |-> Untimed(events[i])] = ExpectedEvents(xml)

\* C24: the time stamp of every parsed event is (raw time stamp of its
\* element - raw time stamp of the first element of the file) / 1000.
TimestampsSinceFirstEvent ==
    \A q \in {events, dispatched, skipped} :
        \A i \in 1..Len(q) :
            q[i].element # 0
                => q[i].timestamp
                    = Fraction(xml.elements[q[i].element].timestamp
                               - xml.elements[1].timestamp, 1000)

\* a document describes a shape when the class builds that very shape from it
Describes(d, s) == BaseShapeProto_from_data(s.cls, d) = Completed(s)

\* C25: update_from_data with a document that describes the shape's own
\* complete current state leaves the shape as it is, whatever its class.
UpdateWithOwnStateIsIdentity ==
    [][(shapePc = "built" /\ shapePc' = "built" /\ updates' = updates + 1
        /\ Describes(shapeData', shapeObj))
       => shapeObj' = shapeObj]_vars

\* C26: a v1 arrow built or updated from a document with a decorations
\* object has a decoration at start exactly when that object has the key
\* start, and at end exactly when it has the key end; an end without its
\* key has None, the default arrowhead at the end included.
ArrowEndDecoratedIffKeyPresent ==
    (shapePc = "built" /\ shapeObj.cls = "ArrowShape" /\ Has(shapeData, "decorations"))
    => /\ shapeObj.decorations.start # None <=> Has(shapeData.decorations, "start")
       /\ shapeObj.decorations["end"] # None <=> Has(shapeData.decorations, "end")

\* a v1 arrow built from decorations {"start": "arrow"}: the arrowhead of
\* the default arrow's end is gone
ArrowEndDecoratedIffKeyPresent_witness ==
    /\ shapePc = "built"
    /\ updates = 0
    /\ shapeObj.cls = "ArrowShape"
    /\ Has(shapeData, "decorations")
    /\ shapeData.decorations = ("start" :> "arrow")
    /\ shapeObj.decorations = [start |-> "arrow", end |-> None]

\* C27: no step changes the contents of a buffer that waits in the input
\* queue or that the worker is writing or about to return; the buffer a put
\* copies into is therefore one that was never used or came back, and what
\* the worker writes as its k-th frame is the k-th frame that was pushed.
QueuedBuffersAreNotOverwritten ==
    [][/\ \A b \in InQueue(queue) \cup HeldByWorker : bufData'[b] = bufData[b]
       /\ putBuf' # 0 => putBuf' \notin InQueue(queue') \cup HeldByWorker'
       /\ written' # written
            => written' = Append(written, pushed[Len(written) + 1].data)]_vars

\* The producer holds a buffer that has been written and returned before,
\* while the worker is writing another one and a third waits in the queue.
QueuedBuffersAreNotOverwritten_witness ==
    /\ pc = "put_copy"
    /\ bufData[putBuf] # 0
    /\ workerPc = "write"
    /\ Buffers(queue) # <<>>

LayersAgree(p, s, t, c) ==
    /\ s.presentation = p.presentation
    /\ t.presentation = p.presentation
    /\ c.presentation = p.presentation
    /\ p.presentation # None
        => (s.slide = p.slide /\ t.slide = p.slide /\ c.slide = p.slide)

\* C28: after every dispatched event the presentation layer, the legacy
\* whiteboard, the tldraw whiteboard and the cursor layer have the same
\* current presentation and, when it is not None, the same current slide;
\* also when a presentation could not be loaded and is shared again.
LayersAgreeOnSlot ==
    [][Handled => LayersAgree(presentation', shapes', tldraw', cursor')]_vars

\* what the four layers show in their current state
Pictures(p, s, t, c) ==
    [presentation |-> PresentationRenderer_picture(p),
     shapes |-> ShapesRenderer_picture(s, p.trans),
     tldraw |-> TldrawRenderer_picture(t, p.trans),
     cursor |-> CursorRenderer_picture(c, p.trans)]

\* the step of render that finalizes the layers and hands the surface to put
Emits == pc = "drain" /\ pc' = "put_get"

\* C29: no emitted frame is stale: the surface handed to the encoder shows
\* the layers as the events dispatched so far have left them, a cursor that
\* a join event has hidden included.
NoStaleFrame ==
    [][Emits => surface' = Pictures(presentation', shapes', tldraw', cursor')]_vars

\* An event was dispatched in an iteration of the frame loop that pushed no
\* frame (recording off, or pts before start_time) and no frame has been
\* pushed since: it was due before the current iteration and after the last
\* frame that was pushed.
Deferred ==
    \E i \in 1..Len(dispatched) :
        /\ FracLe(dispatched[i].timestamp, FracSub(pts, framestep))
        /\ pushed = <<>> \/ FracLt(pushed[Len(pushed)].pts, dispatched[i].timestamp)

\* C30: the first frame pushed after events were dispatched without a
\* frame (recording off or before start_time) is composited from layer
\* state that includes all their changes.
DeferredChangesAreDrawn ==
    [][(Emits /\ Deferred)
       => surface' = Pictures(presentation', shapes', tldraw', cursor')]_vars

====
